---- MODULE Spec2Model ----
(***************************************************************************)
(* mcp-shell: the STDIO <-> Unix-socket proxy (index.ts, daemon-proxy.ts)  *)
(* and the daemon's socket listener (mcp-daemon.ts, server.ts).            *)
(*                                                                         *)
(* Bytes are integers 0..255.  A JSON text is abbreviated to the one       *)
(* character that distinguishes it (see JSONTexts); everything around the  *)
(* text (newline framing, '\r' stripping, UTF-8 decoding, JSON whitespace, *)
(* schema validation) is computed as the code computes it.                 *)
(***************************************************************************)
EXTENDS Integers, Sequences, FiniteSets, TLC

VARIABLES
    argvMode,       \* process.argv: "proxy", "help" or "version"
    pc,             \* position of main() / runDaemonProxy()
    exitCode,       \* {} while the process runs, {c} once it has ended with code c
    log,            \* messages given to logger.error / logger.info
    stdout,         \* the writes made to process.stdout, in order
    mgrCalls,       \* calls made on the server manager, in order
    gets,           \* the socketPath values main read from serverManager.get, in order
    proxyCalls,     \* the arguments runDaemonProxy was called with, in order
    uid,            \* process.getuid(): the real user id
    euid,           \* the effective user id of the process
    fs,             \* what fs.stat finds at socketPath
    elapsed,        \* Date.now() minus the instant the running loop set its deadline
    wakeAt,         \* value of elapsed at which the pending setTimeout fires
    polls,          \* fs.stat calls made by the running waitForSocketReady
    sleeps,         \* setTimeout waits taken by the running loop
    passedOn,       \* the stat result on which validateSocketPermissions returned
    appearedAt,     \* elapsed when the valid socket now at socketPath appeared, else -1
    validatorError, \* the error waitForSocketReady threw
    rejected,       \* the error main's try block caught
    attempts,       \* transport.start() calls made by the running startTransport
    lastError,      \* startTransport's lastError
    connected,      \* transport.start() has resolved
    readBuffer,     \* ReadBuffer.buffer
    stdinAll,       \* every byte delivered by stdin 'data' events, in order
    outcomes,       \* results of the readMessage calls that did not return null
    stdinClosed,    \* stdin 'close' was handled
    closeCalls,     \* transport.close() calls made
    sendFailedAt,   \* Len(stdinAll) when a send rejection was first logged, else -1
    delivered,      \* messages the transport gave to onmessage, in order
    stdinPipe,      \* bytes the client wrote to stdin that no 'data' event has delivered yet
    cuts,           \* framer harness: offsets in stdinAll where one append ended and the next began
    dpc,            \* position of startMcpDaemon(): "off" while no daemon is considered
    dlog,           \* messages the daemon gave to logger.error
    conns,          \* the sockets the listener accepted, in order of acceptance
    transports,     \* the UdsServerTransport objects constructed, in order
    handlers,       \* the MCPShellServer objects constructed, in order
    handled,        \* which handler received the messages of which connection
    pending,        \* requests a handler received and has not replied to
    written,        \* which handler's replies were written to which socket
    dsteps,         \* what the daemon process did to the path and the listener, in order
    dstat,          \* startMcpDaemon's stat: what fs.stat found at socketPath
    listening,      \* the net.Server is bound to socketPath and accepts connections
    dExitCode,      \* the daemon's process.exitCode
    dexited,        \* {} while the daemon runs, {c} once it has ended with code c
    rivalFile,      \* the entry at socketPath is the socket of another daemon that listens on it
    disabledEnv,    \* process.env['MCP_DISABLED_TOOLS'] when server.ts was loaded
    listed,         \* the tools of the last reply to a tools/list request
    lastCall        \* the last tools/call request handled and how

vars == <<argvMode, pc, exitCode, log, stdout, mgrCalls, gets, proxyCalls,
          closeCalls, sendFailedAt, appearedAt, uid, euid, lastError,
          fs, elapsed, wakeAt, polls, sleeps, passedOn, validatorError,
          rejected, attempts, connected, readBuffer, stdinAll, outcomes,
          stdinClosed, delivered, cuts, dpc, dlog, conns, transports,
          handlers, handled, pending, written, dsteps, dstat, listening,
          dExitCode, dexited, disabledEnv, listed, lastCall, stdinPipe,
          rivalFile>>

(***************************************************************************)
(* Program constants                                                       *)
(***************************************************************************)
SOCKET_READY_TIMEOUT_MS == 3000
SOCKET_READY_INTERVAL_MS == 200
TRANSPORT_READY_TIMEOUT_MS == 2000
TRANSPORT_READY_INTERVAL_MS == 200
SOCKET_TIMEOUT_MS == 1000

\* granularity of the model's clock
TickMs == SOCKET_READY_INTERVAL_MS \div 2

(***************************************************************************)
(* Bounds                                                                  *)
(***************************************************************************)
MaxLateTicks == 2       \* how far (in ticks) the clock may run past a deadline
MaxStdinBytes == 3      \* bytes delivered on stdin in a run of the whole program
MaxDelivered == 1       \* messages delivered by the transport in a run of the whole program
MaxSessionBytes == 5    \* bytes delivered on stdin in a connected session taken alone
MaxSessionDelivered == 2 \* messages delivered by the transport in such a session
MaxConns == 2           \* connections accepted by a listener whose timers are left out
MaxConnEvents == 3      \* reads and writes on one of those connections
MaxIdleConns == 1       \* connections accepted by a listener with its idle timers
MaxIdleEvents == 1      \* reads and writes on one of those connections
MaxFramerBytes == 5     \* bytes fed to a ReadBuffer in the framer harness
MaxLifeConns == 1       \* connections accepted in a run of the daemon from its start
MaxLifeEvents == 1      \* reads and writes on one of those connections
MaxEnvTokens == 3       \* names, commas and blanks in MCP_DISABLED_TOOLS
MaxEarlyBytes == 3      \* bytes the client writes before the proxy reads stdin

(***************************************************************************)
(* Bytes, text and JSON                                                    *)
(***************************************************************************)
LF == 10
CR == 13

\* Buffer.indexOf(byte): 1-based position of the first occurrence, 0 if none
\* (the code's index + 1, with 0 standing for -1)
IndexOf(bytes, b) ==
    IF \E i \in 1..Len(bytes) : bytes[i] = b
    THEN CHOOSE i \in 1..Len(bytes) :
            bytes[i] = b /\ \A j \in 1..(i - 1) : bytes[j] # b
    ELSE 0

\* Buffer.toString('utf8'): one- and two-byte sequences are decoded to their
\* code point, every byte that does not start a complete sequence becomes
\* U+FFFD (longer sequences do not occur in the byte sets of this model)
RECURSIVE Utf8Decode(_)
Utf8Decode(bytes) ==
    IF bytes = <<>> THEN <<>>
    ELSE IF bytes[1] < 128 THEN <<bytes[1]>> \o Utf8Decode(Tail(bytes))
    ELSE IF /\ bytes[1] \in 194..223
            /\ Len(bytes) >= 2
            /\ bytes[2] \in 128..191
         THEN <<(bytes[1] - 192) * 64 + (bytes[2] - 128)>>
                  \o Utf8Decode(Tail(Tail(bytes)))
    ELSE <<65533>> \o Utf8Decode(Tail(bytes))

\* the UTF-8 encoding process.stdout.write applies to a string
RECURSIVE Utf8Encode(_)
Utf8Encode(chars) ==
    IF chars = <<>> THEN <<>>
    ELSE LET c == chars[1] IN
         (IF c < 128 THEN <<c>>
          ELSE IF c < 2048 THEN <<192 + (c \div 64), 128 + (c % 64)>>
          ELSE <<224 + (c \div 4096), 128 + ((c \div 64) % 64), 128 + (c % 64)>>)
         \o Utf8Encode(Tail(chars))

\* variant: every trailing '\r' is removed, as replace(/\r+$/, '') would
RECURSIVE StripAllCR(_)
StripAllCR(line) ==
    IF line # <<>> /\ line[Len(line)] = CR
    THEN StripAllCR(SubSeq(line, 1, Len(line) - 1))
    ELSE line

\* String.replace(/\r$/, ''): at most one trailing '\r' is removed
StripCR(line) ==
    IF line # <<>> /\ line[Len(line)] = CR
    THEN SubSeq(line, 1, Len(line) - 1)
    ELSE line

\* The JSON texts of the model, each abbreviated to one character:
\*   'a' 'b' and e-acute  requests with id 1, 2, 3 (the third holds a two-byte character)
\*   'r' 's'              success replies with id 1, 2
\*   'j'                  a JSON value that is not a protocol message
JSONTexts ==
    (97  :> [kind |-> "request", id |-> 1]) @@
    (98  :> [kind |-> "request", id |-> 2]) @@
    (233 :> [kind |-> "request", id |-> 3]) @@
    (114 :> [kind |-> "result",  id |-> 1]) @@
    (115 :> [kind |-> "result",  id |-> 2]) @@
    (106 :> [kind |-> "other",   id |-> 0])

NoValue == [kind |-> "none", id |-> 0]

\* JSON whitespace
JSONWhitespace == {9, LF, CR, 32}

RECURSIVE SkipWs(_)
SkipWs(s) ==
    IF s # <<>> /\ s[1] \in JSONWhitespace THEN SkipWs(Tail(s)) ELSE s

RECURSIVE SkipWsEnd(_)
SkipWsEnd(s) ==
    IF s # <<>> /\ s[Len(s)] \in JSONWhitespace
    THEN SkipWsEnd(SubSeq(s, 1, Len(s) - 1))
    ELSE s

\* JSON.parse: exactly one JSON text, whitespace allowed around it
JSONParse(s) ==
    LET t == SkipWsEnd(SkipWs(s)) IN
    IF Len(t) = 1 /\ t[1] \in DOMAIN JSONTexts
    THEN [ok |-> TRUE, value |-> JSONTexts[t[1]]]
    ELSE [ok |-> FALSE, value |-> NoValue]

\* JSON.stringify
JSONStringify(value) ==
    <<CHOOSE c \in DOMAIN JSONTexts : JSONTexts[c] = value>>

\* variant: no schema validation, every JSON value is accepted
SchemaParseLax(value) == [ok |-> TRUE, value |-> value]

\* JSONRPCMessageSchema.parse: a request, notification, result or error
MessageKinds == {"request", "notification", "result", "error"}

SchemaParse(value) ==
    IF value.kind \in MessageKinds
    THEN [ok |-> TRUE, value |-> value]
    ELSE [ok |-> FALSE, value |-> NoValue]

\* variant: the record is written without its terminating newline
serializeNoNewline(message) == Utf8Encode(JSONStringify(message))

\* serializeMessage
serializeMessage(message) == Utf8Encode(JSONStringify(message)) \o <<LF>>

(***************************************************************************)
(* ReadBuffer                                                              *)
(***************************************************************************)
Undefined == [defined |-> FALSE, bytes |-> <<>>]

\* variant: the new chunk replaces what was buffered
appendReplacing(buffer, chunk) == [defined |-> TRUE, bytes |-> chunk]

\* ReadBuffer.append
append(buffer, chunk) ==
    [defined |-> TRUE,
     bytes |-> IF buffer.defined THEN buffer.bytes \o chunk ELSE chunk]

\* variant: subarray(index), which keeps the '\n' at the front of the buffer
subarrayAt(bytes, index) ==
    [defined |-> TRUE, bytes |-> SubSeq(bytes, index, Len(bytes))]

\* this.buffer = this.buffer.subarray(index + 1)
subarrayAfter(bytes, index) ==
    [defined |-> TRUE, bytes |-> SubSeq(bytes, index + 1, Len(bytes))]

\* variant: a line that does not parse takes the rest of the buffer with it
parseLineDropsRest(rest, line) ==
    LET json == JSONParse(line)
        msg  == SchemaParse(json.value)
    IN  IF json.ok /\ msg.ok
        THEN [buffer |-> rest, kind |-> "message", value |-> msg.value,
              line |-> line]
        ELSE [buffer |-> [defined |-> TRUE, bytes |-> <<>>], kind |-> "throw",
              value |-> NoValue, line |-> line]

\* return JSONRPCMessageSchema.parse(JSON.parse(line)), the buffer having
\* been advanced to rest before
parseLine(rest, line) ==
    LET json == JSONParse(line)
        msg  == SchemaParse(json.value)
    IN  IF json.ok /\ msg.ok
        THEN [buffer |-> rest, kind |-> "message", value |-> msg.value,
              line |-> line]
        ELSE [buffer |-> rest, kind |-> "throw", value |-> NoValue,
              line |-> line]

\* ReadBuffer.readMessage: the buffer it leaves and what it returns or throws
\*   kind "null"    : returned null
\*   kind "message" : returned value
\*   kind "throw"   : JSON.parse or the schema threw; line is the decoded record
readMessage(buffer) ==
    IF ~buffer.defined
    THEN [buffer |-> buffer, kind |-> "null", value |-> NoValue, line |-> <<>>]
    ELSE
      LET index == IndexOf(buffer.bytes, LF) IN
      IF index = 0
      THEN [buffer |-> buffer, kind |-> "null", value |-> NoValue, line |-> <<>>]
      ELSE parseLine(subarrayAfter(buffer.bytes, index),
                     StripCR(Utf8Decode(SubSeq(buffer.bytes, 1, index - 1))))

\* variant: clear leaves the buffer as it is
clearKeepsBytes(buffer) == buffer

\* ReadBuffer.clear
clear(buffer) == Undefined

\* what a readMessage call contributes to the record of outcomes
Outcome(r) == [kind |-> r.kind, value |-> r.value, line |-> r.line]

(***************************************************************************)
(* Errors and log messages                                                 *)
(***************************************************************************)
NoError == [message |-> "", code |-> ""]
Err(message, code) == [message |-> message, code |-> code]

ErrNotSocket == Err("Socket path is not a Unix domain socket.", "")
ErrMode == Err("Socket permissions must be 600.", "")
ErrOwner == Err("Socket owner does not match current user.", "")
ErrNoEntry == Err("ENOENT: no such file or directory, stat", "ENOENT")
ErrSocketTimeout == Err("Timed out waiting for daemon socket.", "")
ErrNoSocketPath ==
    Err("Child daemon socket was not available from shell-server process.", "")
ErrTransportTimeout == Err("Timed out waiting for daemon transport.", "")
ErrManager == Err("server manager failure", "")
ErrConnect(code) == Err("connect failed", code)

LogMainFailed == "Failed to start shell-server process for MCP proxy"
LogValidationFailed == "MCP daemon socket validation failed"
LogParseFailed == "Failed to parse daemon proxy message"
LogSendFailed == "Failed to send daemon proxy message"
LogCloseFailed == "Failed to close daemon proxy transport"
LogTransportClosed == "Daemon transport closed"

\* transport.onerror: the message chosen for the error's code
TransportErrorMessage(code) ==
    IF code = "ENOENT"
    THEN "Daemon socket not found. Start the shell-server daemon process."
    ELSE IF code = "EACCES"
    THEN "Permission denied connecting to daemon socket. Check file permissions and ownership."
    ELSE IF code = "ECONNREFUSED"
    THEN "Daemon socket refused connection. The daemon may be down."
    ELSE "Daemon transport error."

\* what printHelp and the --version branch write (abbreviated to one line each)
HelpText == <<72, LF>>
VersionText == <<50, LF>>

(***************************************************************************)
(* The file system entry at socketPath                                     *)
(***************************************************************************)
S_IFSOCK == 49152
S_IFREG == 32768
S_IFDIR == 16384

UserIds == {1000, 1001}
FileModes == {S_IFSOCK + 384, S_IFSOCK + 420, S_IFREG + 384, S_IFDIR + 493}

Absent == [present |-> FALSE, mode |-> 0, uid |-> 0]
FsEntries == {Absent} \cup [present : {TRUE}, mode : FileModes, uid : UserIds]

\* Stats.isSocket(): (mode & S_IFMT) === S_IFSOCK
isSocket(st) == ((st.mode \div 4096) % 16) * 4096 = S_IFSOCK

\* variant: a path with no entry passes the check
validateMissingPasses(st, getuid) ==
    IF ~st.present THEN NoError
    ELSE IF ~isSocket(st) THEN ErrNotSocket
    ELSE IF st.mode % 512 # 384 THEN ErrMode
    ELSE IF st.uid # getuid THEN ErrOwner
    ELSE NoError

\* validateSocketPermissions: the error it throws, NoError when it returns.
\* process.getuid is a function on every platform that has Unix sockets, so
\* the comparison with process.getuid() is always made.
validateSocketPermissions(st, getuid) ==
    IF ~st.present THEN ErrNoEntry
    ELSE IF ~isSocket(st) THEN ErrNotSocket
    ELSE IF st.mode % 512 # 384 THEN ErrMode
    ELSE IF st.uid # getuid THEN ErrOwner
    ELSE NoError

(***************************************************************************)
(* Initial state                                                           *)
(***************************************************************************)
\* no request for tools has been handled
NoList == [replied |-> FALSE, tools |-> <<>>]
NoCall == [name |-> "", argsValid |-> FALSE, outcome |-> "", steps |-> <<>>,
           response |-> [kind |-> "none"]]
ToolsIdle ==
    /\ disabledEnv = <<>>
    /\ listed = NoList
    /\ lastCall = NoCall

\* no daemon process is considered
DaemonOff ==
    /\ dpc = "off"
    /\ dlog = {}
    /\ conns = <<>>
    /\ transports = <<>>
    /\ handlers = <<>>
    /\ handled = {}
    /\ pending = {}
    /\ written = {}
    /\ dsteps = <<>>
    /\ dstat = Absent
    /\ listening = FALSE
    /\ dExitCode = 0
    /\ dexited = {}
    /\ rivalFile = FALSE
    /\ ToolsIdle

Init ==
    /\ argvMode \in {"proxy", "help", "version"}
    /\ pc = "main"
    /\ exitCode = {}
    /\ log = {}
    /\ stdout = <<>>
    /\ mgrCalls = <<>>
    /\ gets = <<>>
    /\ proxyCalls = <<>>
    /\ uid = 1000
    /\ euid \in UserIds
    /\ fs \in FsEntries
    /\ elapsed = 0
    /\ wakeAt = 0
    /\ polls = 0
    /\ sleeps = 0
    /\ passedOn = Absent
    /\ appearedAt = -1
    /\ validatorError = NoError
    /\ rejected = NoError
    /\ attempts = 0
    /\ lastError = NoError
    /\ connected = FALSE
    /\ readBuffer = Undefined
    /\ stdinAll = <<>>
    /\ outcomes = <<>>
    /\ stdinClosed = FALSE
    /\ closeCalls = 0
    /\ sendFailedAt = -1
    /\ delivered = <<>>
    /\ stdinPipe = <<>>
    /\ cuts = {}
    /\ DaemonOff

lifeVars == <<dsteps, dstat, listening, dExitCode, dexited, rivalFile>>
toolVars == <<disabledEnv, listed, lastCall>>
daemonVars == <<dpc, dlog, conns, transports, handlers, handled, pending,
                written, lifeVars, toolVars>>
envVars == <<argvMode, uid, euid, cuts, daemonVars>>
validatorVars == <<polls, sleeps, passedOn, appearedAt, validatorError>>
connectVars == <<attempts, lastError, connected>>
sessionVars == <<readBuffer, stdinAll, outcomes, stdinClosed, closeCalls,
                 sendFailedAt, delivered, stdinPipe>>
mgrVars == <<mgrCalls, gets, proxyCalls>>
clockVars == <<elapsed, wakeAt>>

(***************************************************************************)
(* main (index.ts)                                                         *)
(***************************************************************************)
\* process.exit(code), or the process ending when main returns
Exit(code) ==
    /\ pc' = "exited"
    /\ exitCode' = {code}

\* variant: the catch block ends the process with code 0
MainCatchExitsZero(logged) ==
    /\ log' = logged \cup {LogMainFailed}
    /\ Exit(0)

\* main's catch block: log, then process.exit(1); logged is the log as the
\* rejected call left it
MainCatchFrom(logged) ==
    /\ log' = logged \cup {LogMainFailed}
    /\ Exit(1)

MainCatch == MainCatchFrom(log)

\* what main reads as socketPath from the result of serverManager.get:
\* undefined when the result has no childSocketPath, else its value
UndefinedPath == "undefined"
ChildSocketPath == "/run/mcp-shell/child.sock"
SocketPaths == {UndefinedPath, "", ChildSocketPath}

\* variant: only undefined counts as a missing socket path
FalsyUndefinedOnly(socketPath) == socketPath = UndefinedPath

\* !socketPath
Falsy(socketPath) == socketPath \in {UndefinedPath, ""}

\* runDaemonProxy(socketPath) begins: waitForSocketReady sets its deadline,
\* finds Date.now() < deadline and calls fs.stat
EnterRunDaemonProxy(socketPath) ==
    /\ proxyCalls' = Append(proxyCalls, socketPath)
    /\ pc' = "v_stat"
    /\ elapsed' = 0
    /\ wakeAt' = 0
    /\ polls' = 1
    /\ sleeps' = 0

\* main up to its first await: --version, --help, or serverManager.start
MainArgs ==
    /\ pc = "main"
    /\ IF argvMode = "version"
       THEN /\ stdout' = Append(stdout, VersionText)
            /\ Exit(0)
            /\ UNCHANGED mgrCalls
       ELSE IF argvMode = "help"
       THEN /\ stdout' = Append(stdout, HelpText)
            /\ Exit(0)
            /\ UNCHANGED mgrCalls
       ELSE /\ mgrCalls' = Append(mgrCalls, "start:allowExisting")
            /\ pc' = "await_start1"
            /\ UNCHANGED <<stdout, exitCode>>
    /\ UNCHANGED <<log, fs, rejected, gets, proxyCalls, envVars, validatorVars,
                   connectVars, sessionVars, clockVars>>

\* a server manager call rejects: main's catch block runs
ManagerThrows ==
    /\ pc \in {"await_start1", "await_get1", "await_stop", "await_start2",
               "await_get2"}
    /\ rejected' = ErrManager
    /\ MainCatch
    /\ UNCHANGED <<stdout, mgrVars, fs, envVars, validatorVars, connectVars,
                   sessionVars, clockVars>>

\* serverManager.start resolves; serverManager.get is called
ManagerStarted ==
    /\ pc \in {"await_start1", "await_start2"}
    /\ mgrCalls' = Append(mgrCalls, "get")
    /\ pc' = IF pc = "await_start1" THEN "await_get1" ELSE "await_get2"
    /\ UNCHANGED <<exitCode, log, stdout, fs, rejected, gets, proxyCalls,
                   envVars, validatorVars, connectVars, sessionVars, clockVars>>

\* the first serverManager.get resolves and main reads socketPath from it
ManagerGot1(socketPath) ==
    /\ pc = "await_get1"
    /\ gets' = Append(gets, socketPath)
    /\ IF Falsy(socketPath)
       THEN /\ mgrCalls' = Append(mgrCalls, "stop:force")
            /\ pc' = "await_stop"
            /\ UNCHANGED <<clockVars, polls, sleeps, proxyCalls>>
       ELSE /\ EnterRunDaemonProxy(socketPath)
            /\ UNCHANGED mgrCalls
    /\ UNCHANGED <<exitCode, log, stdout, fs, rejected, envVars, passedOn,
                   appearedAt,
                   validatorError, connectVars, sessionVars>>

\* serverManager.stop resolves; the clean start is called
ManagerStopped ==
    /\ pc = "await_stop"
    /\ mgrCalls' = Append(mgrCalls, "start:clean")
    /\ pc' = "await_start2"
    /\ UNCHANGED <<exitCode, log, stdout, fs, rejected, gets, proxyCalls,
                   envVars, validatorVars, connectVars, sessionVars, clockVars>>

\* the second serverManager.get resolves and main reads socketPath from it
ManagerGot2(socketPath) ==
    /\ pc = "await_get2"
    /\ gets' = Append(gets, socketPath)
    /\ IF Falsy(socketPath)
       THEN /\ rejected' = ErrNoSocketPath
            /\ MainCatch
            /\ UNCHANGED <<clockVars, polls, sleeps, proxyCalls>>
       ELSE /\ EnterRunDaemonProxy(socketPath)
            /\ UNCHANGED <<exitCode, log, rejected>>
    /\ UNCHANGED <<stdout, mgrCalls, fs, envVars, passedOn, appearedAt,
                   validatorError,
                   connectVars, sessionVars>>

(***************************************************************************)
(* waitForSocketReady (daemon-proxy.ts)                                    *)
(***************************************************************************)
\* variant: every stat failure is treated as transient
SocketRetryableAny(error) == TRUE

\* waitForSocketReady's catch: only ENOENT is swallowed (code !== 'ENOENT' rethrows)
SocketRetryable(error) == error.code = "ENOENT"

\* variant: the catch throws a new error instead of the one it caught
RethrowWrapped(error) == Err(LogValidationFailed, "")

\* runDaemonProxy's catch around waitForSocketReady: `throw error`
RethrowValidation(error) == error

\* variant: the loops still run their body at the deadline itself
WithinDeadlineInclusive(now, deadline) == now <= deadline

\* the loops' condition: Date.now() < deadline
WithinDeadline(now, deadline) == now < deadline

\* the timed loops of the proxy and their deadlines
TimedPcs == {"v_stat", "v_sleep", "c_start", "c_sleep"}
Deadline ==
    IF pc \in {"v_stat", "v_sleep"} THEN SOCKET_READY_TIMEOUT_MS
    ELSE TRANSPORT_READY_TIMEOUT_MS

\* a call settles or a timer fires at most MaxLateTicks after its due time
TickLimit == IF pc \in {"v_sleep", "c_sleep"} THEN wakeAt ELSE Deadline

\* time passes while the proxy awaits fs.stat, transport.start or a timer
Tick ==
    /\ pc \in TimedPcs
    /\ elapsed < TickLimit + MaxLateTicks * TickMs
    /\ elapsed' = elapsed + TickMs
    /\ UNCHANGED <<pc, exitCode, log, stdout, mgrVars, fs, wakeAt, rejected,
                   envVars, validatorVars, connectVars, sessionVars>>

\* the environment creates, replaces or removes the entry at socketPath
FsChange(entry) ==
    /\ pc \in {"v_stat", "v_sleep"}
    /\ entry # fs
    /\ fs' = entry
    /\ appearedAt' = IF validateSocketPermissions(entry, uid) = NoError
                     THEN elapsed ELSE -1
    /\ UNCHANGED <<pc, exitCode, log, stdout, mgrVars, rejected, envVars,
                   polls, sleeps, passedOn, validatorError, connectVars,
                   sessionVars, clockVars>>

\* fs.stat settles and validateSocketPermissions returns or throws; when it
\* returns, waitForSocketReady returns
StatReturns ==
    /\ pc = "v_stat"
    /\ LET error == validateSocketPermissions(fs, uid) IN
       IF error = NoError
       THEN /\ passedOn' = fs
            /\ pc' = "v_passed"
            /\ UNCHANGED <<clockVars, polls, sleeps, appearedAt,
                           validatorError>>
       ELSE IF SocketRetryable(error)
       THEN /\ pc' = "v_sleep"
            /\ wakeAt' = elapsed + SOCKET_READY_INTERVAL_MS
            /\ sleeps' = sleeps + 1
            /\ UNCHANGED <<elapsed, polls, passedOn, appearedAt, validatorError>>
       ELSE /\ validatorError' = error
            /\ pc' = "rdp_catch"
            /\ UNCHANGED <<clockVars, polls, sleeps, passedOn, appearedAt>>
    /\ UNCHANGED <<exitCode, log, stdout, mgrVars, fs, rejected, envVars,
                   connectVars, sessionVars>>

\* the 200 ms timer fires and the while condition is evaluated again
SocketTimerFires ==
    /\ pc = "v_sleep"
    /\ elapsed >= wakeAt
    /\ IF WithinDeadline(elapsed, SOCKET_READY_TIMEOUT_MS)
       THEN /\ pc' = "v_stat"
            /\ polls' = polls + 1
            /\ UNCHANGED validatorError
       ELSE /\ validatorError' = ErrSocketTimeout
            /\ pc' = "rdp_catch"
            /\ UNCHANGED polls
    /\ wakeAt' = 0
    /\ UNCHANGED <<exitCode, log, stdout, mgrVars, fs, rejected, envVars,
                   sleeps, passedOn, appearedAt, connectVars, sessionVars,
                   elapsed>>

\* runDaemonProxy's catch: log the validation failure and rethrow; main's
\* catch block then logs and exits
ValidationFailed ==
    /\ pc = "rdp_catch"
    /\ rejected' = RethrowValidation(validatorError)
    /\ MainCatchFrom(log \cup {LogValidationFailed})
    /\ UNCHANGED <<stdout, mgrVars, fs, envVars, validatorVars, connectVars,
                   sessionVars, clockVars>>

(***************************************************************************)
(* startTransport (daemon-proxy.ts)                                        *)
(***************************************************************************)
\* variant: every connect failure is retried
ConnectRetryableAny(error) == TRUE

\* variant: no connect failure is retried
ConnectRetryableNever(error) == FALSE

\* startTransport's catch: only ECONNREFUSED is retried
ConnectRetryable(error) == error.code = "ECONNREFUSED"

ConnectCodes == {"ECONNREFUSED", "ENOENT", "EACCES", "EPIPE"}

\* waitForSocketReady has returned: runDaemonProxy builds the transport,
\* sets the three handlers and startTransport makes its first
\* transport.start() call
ValidationPassed ==
    /\ pc = "v_passed"
    /\ pc' = "c_start"
    /\ elapsed' = 0
    /\ wakeAt' = 0
    /\ polls' = 0
    /\ sleeps' = 0
    /\ attempts' = 1
    /\ appearedAt' = -1
    /\ UNCHANGED <<exitCode, log, stdout, mgrVars, fs, rejected, envVars,
                   passedOn, validatorError, lastError, connected,
                   sessionVars>>

\* transport.start() resolves: startTransport returns
StartResolves ==
    /\ pc = "c_start"
    /\ connected' = TRUE
    /\ pc' = "c_returned"
    /\ UNCHANGED <<exitCode, log, stdout, mgrVars, fs, rejected, envVars,
                   validatorVars, attempts, lastError, sessionVars, clockVars>>

\* startTransport has returned: runDaemonProxy registers the stdin 'data'
\* and 'close' handlers and returns
RegisterStdin ==
    /\ pc = "c_returned"
    /\ pc' = "steady"
    /\ elapsed' = 0
    /\ wakeAt' = 0
    /\ attempts' = 0
    /\ sleeps' = 0
    /\ lastError' = NoError
    /\ UNCHANGED <<exitCode, log, stdout, mgrVars, fs, rejected, envVars,
                   polls, passedOn, appearedAt, validatorError, connected,
                   sessionVars>>

\* transport.start() rejects; the transport may also report the error to
\* transport.onerror
StartRejects(code, notified) ==
    /\ pc = "c_start"
    /\ lastError' = ErrConnect(code)
    /\ LET logged == IF notified THEN log \cup {TransportErrorMessage(code)}
                     ELSE log
       IN IF ConnectRetryable(ErrConnect(code))
          THEN /\ pc' = "c_sleep"
               /\ wakeAt' = elapsed + TRANSPORT_READY_INTERVAL_MS
               /\ sleeps' = sleeps + 1
               /\ log' = logged
               /\ UNCHANGED <<exitCode, rejected>>
          ELSE /\ rejected' = ErrConnect(code)
               /\ MainCatchFrom(logged)
               /\ UNCHANGED <<wakeAt, sleeps>>
    /\ UNCHANGED <<stdout, mgrVars, fs, envVars, elapsed, polls, passedOn,
                   appearedAt,
                   validatorError, attempts, connected, sessionVars>>

\* variant: the connect loop has no deadline
ConnectTimerFiresForever ==
    /\ pc = "c_sleep"
    /\ elapsed >= wakeAt
    /\ pc' = "c_start"
    /\ attempts' = attempts + 1
    /\ wakeAt' = 0
    /\ UNCHANGED <<exitCode, log, rejected, stdout, mgrVars, fs, envVars,
                   validatorVars, lastError, connected, sessionVars, elapsed>>

\* the 200 ms timer fires and the while condition is evaluated again
ConnectTimerFires ==
    /\ pc = "c_sleep"
    /\ elapsed >= wakeAt
    /\ IF WithinDeadline(elapsed, TRANSPORT_READY_TIMEOUT_MS)
       THEN /\ pc' = "c_start"
            /\ attempts' = attempts + 1
            /\ UNCHANGED <<exitCode, log, rejected>>
       ELSE /\ rejected' = IF lastError # NoError THEN lastError
                            ELSE ErrTransportTimeout
            /\ MainCatch
            /\ UNCHANGED attempts
    /\ wakeAt' = 0
    /\ UNCHANGED <<stdout, mgrVars, fs, envVars, validatorVars, lastError,
                   connected, sessionVars, elapsed>>

(***************************************************************************)
(* Steady state (daemon-proxy.ts)                                          *)
(***************************************************************************)
\* the byte values stdin delivers and the messages the transport delivers
StdinBytes == {LF, 97, 106}
DeliverableMessages == {JSONTexts[114], JSONTexts[233]}

\* the non-empty sequences over S of length at most n
SeqsUpTo(S, n) == UNION {[1..k -> S] : k \in 1..n}

\* variant: the messages of one 'data' event are handed on last-in first-out
RECURSIVE DataLoopLifo(_, _)
DataLoopLifo(buffer, acc) ==
    LET r == readMessage(buffer) IN
    IF r.kind = "throw"
    THEN [buffer |-> r.buffer, outcomes |-> Append(acc, Outcome(r))]
    ELSE IF r.kind = "null"
    THEN [buffer |-> r.buffer, outcomes |-> acc]
    ELSE DataLoopLifo(r.buffer, <<Outcome(r)>> \o acc)

\* the while (true) loop of the stdin 'data' handler: readMessage until it
\* returns null; a throw is logged and ends the loop (break)
RECURSIVE DataLoop(_, _)
DataLoop(buffer, acc) ==
    LET r == readMessage(buffer) IN
    IF r.kind = "throw"
    THEN [buffer |-> r.buffer, outcomes |-> Append(acc, Outcome(r))]
    ELSE IF r.kind = "null"
    THEN [buffer |-> r.buffer, outcomes |-> acc]
    ELSE DataLoop(r.buffer, Append(acc, Outcome(r)))

\* variant: the handler also prints a diagnostic line to stdout
onmessageChatty(out, message) ==
    Append(Append(out, <<100, LF>>), serializeMessage(message))

\* transport.onmessage: serialize, one process.stdout.write
onmessage(out, message) == Append(out, serializeMessage(message))

Threw(os) == \E i \in 1..Len(os) : os[i].kind = "throw"
Returned(os) == \E i \in 1..Len(os) : os[i].kind = "message"

\* stdin 'data': append the chunk, run the loop; each message is given to
\* transport.send, whose promise may reject later (logged).  The chunk is
\* the front of what waits in the pipe, or bytes the client writes now
StdinData(chunk, sendFails) ==
    /\ pc = "steady"
    /\ ~stdinClosed
    /\ stdinPipe # <<>> =>
          /\ Len(chunk) <= Len(stdinPipe)
          /\ chunk = SubSeq(stdinPipe, 1, Len(chunk))
    /\ stdinPipe' = SubSeq(stdinPipe, Len(chunk) + 1, Len(stdinPipe))
    /\ LET r == DataLoop(append(readBuffer, chunk), <<>>) IN
       /\ sendFails => Returned(r.outcomes)
       /\ readBuffer' = r.buffer
       /\ outcomes' = outcomes \o r.outcomes
       /\ log' = log \cup (IF Threw(r.outcomes) THEN {LogParseFailed} ELSE {})
                     \cup (IF sendFails THEN {LogSendFailed} ELSE {})
    /\ stdinAll' = stdinAll \o chunk
    /\ sendFailedAt' = IF sendFails /\ sendFailedAt = -1
                       THEN Len(stdinAll) + Len(chunk) ELSE sendFailedAt
    /\ UNCHANGED <<pc, exitCode, stdout, mgrVars, fs, rejected, envVars,
                   validatorVars, connectVars, stdinClosed, closeCalls,
                   delivered, clockVars>>

\* stdin 'close': clear the buffer, close the transport (a rejection is logged)
StdinClose(closeFails) ==
    /\ pc = "steady"
    /\ ~stdinClosed
    /\ stdinClosed' = TRUE
    /\ readBuffer' = clear(readBuffer)
    /\ closeCalls' = closeCalls + 1
    /\ log' = IF closeFails THEN log \cup {LogCloseFailed} ELSE log
    /\ UNCHANGED <<pc, exitCode, stdout, mgrVars, fs, rejected, envVars,
                   validatorVars, connectVars, stdinAll, outcomes,
                   sendFailedAt, delivered, stdinPipe, clockVars>>

\* the transport delivers a message to transport.onmessage
TransportMessage(message) ==
    /\ pc = "steady"
    /\ connected
    /\ delivered' = Append(delivered, message)
    /\ stdout' = onmessage(stdout, message)
    /\ UNCHANGED <<pc, exitCode, log, mgrVars, fs, rejected, envVars,
                   validatorVars, connectVars, readBuffer, stdinAll, outcomes,
                   stdinClosed, closeCalls, sendFailedAt, stdinPipe, clockVars>>

\* the connected transport reports an I/O error to transport.onerror
TransportError(code) ==
    /\ pc = "steady"
    /\ connected
    /\ TransportErrorMessage(code) \notin log
    /\ log' = log \cup {TransportErrorMessage(code)}
    /\ UNCHANGED <<pc, exitCode, stdout, mgrVars, fs, rejected, envVars,
                   validatorVars, connectVars, sessionVars, clockVars>>

\* variant: onclose logs and leaves the process running
TransportCloseStaysUp ==
    /\ pc = "steady"
    /\ connected
    /\ log' = log \cup {LogTransportClosed}
    /\ UNCHANGED <<pc, exitCode, stdout, mgrVars, fs, rejected, envVars,
                   validatorVars, connectVars, sessionVars, clockVars>>

\* transport.onclose: log, process.exit(0)
TransportClose ==
    /\ pc = "steady"
    /\ connected
    /\ log' = log \cup {LogTransportClosed}
    /\ Exit(0)
    /\ UNCHANGED <<stdout, mgrVars, fs, rejected, envVars, validatorVars,
                   connectVars, sessionVars, clockVars>>

(***************************************************************************)
(* The proxy process                                                       *)
(***************************************************************************)
Next ==
    \/ MainArgs
    \/ ManagerThrows
    \/ ManagerStarted
    \/ \E socketPath \in SocketPaths : ManagerGot1(socketPath)
    \/ ManagerStopped
    \/ \E socketPath \in SocketPaths : ManagerGot2(socketPath)
    \/ Tick
    \/ \E entry \in FsEntries : FsChange(entry)
    \/ StatReturns
    \/ SocketTimerFires
    \/ ValidationFailed
    \/ ValidationPassed
    \/ StartResolves
    \/ RegisterStdin
    \/ \E code \in ConnectCodes, notified \in BOOLEAN : StartRejects(code, notified)
    \/ ConnectTimerFires
    \/ \E chunk \in SeqsUpTo(StdinBytes, MaxStdinBytes - Len(stdinAll)),
          sendFails \in BOOLEAN :
          StdinData(chunk, sendFails)
    \/ \E closeFails \in BOOLEAN : StdinClose(closeFails)
    \/ /\ Len(delivered) < MaxDelivered
       /\ \E message \in DeliverableMessages : TransportMessage(message)
    \/ TransportError("EPIPE")
    \/ TransportClose

Spec == Init /\ [][Next]_vars

(***************************************************************************)
(* A connected session on its own: the proxy from the moment               *)
(* transport.start() has resolved and the stdin handlers are registered    *)
(***************************************************************************)
SessionBytes == {LF, 97, 98, 106}
ValidSocket == [present |-> TRUE, mode |-> S_IFSOCK + 384, uid |-> 1000]

SessionInit ==
    /\ argvMode = "proxy"
    /\ pc = "steady"
    /\ exitCode = {}
    /\ log = {}
    /\ stdout = <<>>
    /\ mgrCalls = <<"start:allowExisting", "get">>
    /\ gets = <<ChildSocketPath>>
    /\ proxyCalls = <<ChildSocketPath>>
    /\ uid = 1000
    /\ euid = 1000
    /\ fs = ValidSocket
    /\ elapsed = 0
    /\ wakeAt = 0
    /\ polls = 0
    /\ sleeps = 0
    /\ passedOn = ValidSocket
    /\ appearedAt = -1
    /\ validatorError = NoError
    /\ rejected = NoError
    /\ attempts = 0
    /\ lastError = NoError
    /\ connected = TRUE
    /\ readBuffer = Undefined
    /\ stdinAll = <<>>
    /\ outcomes = <<>>
    /\ stdinClosed = FALSE
    /\ closeCalls = 0
    /\ sendFailedAt = -1
    /\ delivered = <<>>
    /\ stdinPipe = <<>>
    /\ cuts = {}
    /\ DaemonOff

SessionNext ==
    \/ \E chunk \in SeqsUpTo(SessionBytes, MaxSessionBytes - Len(stdinAll)),
          sendFails \in BOOLEAN :
          StdinData(chunk, sendFails)
    \/ \E closeFails \in BOOLEAN : StdinClose(closeFails)
    \/ /\ Len(delivered) < MaxSessionDelivered
       /\ \E message \in DeliverableMessages : TransportMessage(message)
    \/ TransportError("EPIPE")
    \/ TransportClose

SessionSpec == SessionInit /\ [][SessionNext]_vars

(***************************************************************************)
(* ReadBuffer on its own: a caller that appends chunks and calls           *)
(* readMessage, catching what it throws                                    *)
(***************************************************************************)
FramerBytes == {LF, CR, 97, 195, 169}

FramerInit ==
    /\ argvMode = "proxy"
    /\ pc = "framer"
    /\ exitCode = {}
    /\ log = {}
    /\ stdout = <<>>
    /\ mgrCalls = <<>>
    /\ gets = <<>>
    /\ proxyCalls = <<>>
    /\ uid = 1000
    /\ euid = 1000
    /\ fs = Absent
    /\ elapsed = 0
    /\ wakeAt = 0
    /\ polls = 0
    /\ sleeps = 0
    /\ passedOn = Absent
    /\ appearedAt = -1
    /\ validatorError = NoError
    /\ rejected = NoError
    /\ attempts = 0
    /\ lastError = NoError
    /\ connected = FALSE
    /\ readBuffer = Undefined
    /\ stdinAll = <<>>
    /\ outcomes = <<>>
    /\ stdinClosed = FALSE
    /\ closeCalls = 0
    /\ sendFailedAt = -1
    /\ delivered = <<>>
    /\ stdinPipe = <<>>
    /\ cuts = {}
    /\ DaemonOff

framerFrame == <<daemonVars, argvMode, pc, exitCode, log, stdout, mgrVars,
                 uid, euid, fs,
                 rejected, validatorVars, connectVars, stdinClosed, closeCalls,
                 sendFailedAt, delivered, stdinPipe, clockVars>>

\* readBuffer.append(chunk)
FramerAppend(chunk) ==
    /\ pc = "framer"
    /\ Len(stdinAll) + Len(chunk) <= MaxFramerBytes
    /\ readBuffer' = append(readBuffer, chunk)
    /\ stdinAll' = stdinAll \o chunk
    /\ cuts' = IF stdinAll = <<>> THEN cuts ELSE cuts \cup {Len(stdinAll)}
    /\ UNCHANGED <<outcomes, framerFrame>>

\* readBuffer.readMessage() returning a message or throwing
FramerRead ==
    /\ pc = "framer"
    /\ LET r == readMessage(readBuffer) IN
       /\ r.kind # "null"
       /\ readBuffer' = r.buffer
       /\ outcomes' = Append(outcomes, Outcome(r))
    /\ UNCHANGED <<stdinAll, cuts, framerFrame>>

FramerNext ==
    \/ \E chunk \in SeqsUpTo(FramerBytes, MaxFramerBytes - Len(stdinAll)) :
          FramerAppend(chunk)
    \/ FramerRead

FramerSpec == FramerInit /\ [][FramerNext]_vars

(***************************************************************************)
(* The daemon's listener (mcp-daemon.ts): its connections                  *)
(***************************************************************************)
LogDaemonTransportFailed == "MCP daemon transport failed"

\* the proxy process is not considered
ProxyOff ==
    /\ argvMode = "proxy"
    /\ pc = "off"
    /\ exitCode = {}
    /\ log = {}
    /\ stdout = <<>>
    /\ mgrCalls = <<>>
    /\ gets = <<>>
    /\ proxyCalls = <<>>
    /\ elapsed = 0
    /\ wakeAt = 0
    /\ polls = 0
    /\ sleeps = 0
    /\ passedOn = Absent
    /\ appearedAt = -1
    /\ validatorError = NoError
    /\ rejected = NoError
    /\ attempts = 0
    /\ lastError = NoError
    /\ connected = FALSE
    /\ readBuffer = Undefined
    /\ stdinAll = <<>>
    /\ outcomes = <<>>
    /\ stdinClosed = FALSE
    /\ closeCalls = 0
    /\ sendFailedAt = -1
    /\ delivered = <<>>
    /\ stdinPipe = <<>>
    /\ cuts = {}

\* the listener is bound and the socket file has mode 0600
DaemonInit ==
    /\ ProxyOff
    /\ uid = 1000
    /\ euid = 1000
    /\ fs = ValidSocket
    /\ dpc = "ready"
    /\ dlog = {}
    /\ conns = <<>>
    /\ transports = <<>>
    /\ handlers = <<>>
    /\ handled = {}
    /\ pending = {}
    /\ written = {}
    /\ dsteps = <<"mkdir", "stat", "listen", "chmod", "ready">>
    /\ dstat = Absent
    /\ listening = TRUE
    /\ dExitCode = 0
    /\ dexited = {}
    /\ rivalFile = FALSE
    /\ ToolsIdle

proxyVars == <<argvMode, pc, exitCode, log, stdout, mgrVars, uid, euid,
               rejected, validatorVars, connectVars, sessionVars, clockVars,
               cuts>>

\* an accepted socket on which socket.setTimeout has just been called
NewSocket == [open |-> TRUE, idle |-> 0, lastGap |-> -1, events |-> 0,
              closedBy |-> ""]

\* new UdsServerTransport(socket); server.connect sets its onmessage
NewTransport(ts, socket, handler) ==
    Append(ts, [socket |-> socket, onmessage |-> handler])

\* variant: one MCPShellServer, constructed once, is connected to the
\* transport of every connection
SharedHandler(hs, transport) ==
    IF hs = <<>> THEN <<[transport |-> transport]>>
    ELSE [hs EXCEPT ![1].transport = transport]

\* new MCPShellServer() and runWithTransport(transport): a new protocol
\* Server whose transport is the one given
NewHandler(hs, transport) == Append(hs, [transport |-> transport])

\* variant: the timer, once set, is not restarted by traffic
TrafficKeepsTimer(socket) ==
    [socket EXCEPT !.lastGap = socket.idle, !.events = socket.events + 1]

\* bytes are read from or written to a socket: the idle timer set by
\* socket.setTimeout starts again
Traffic(socket) ==
    [socket EXCEPT !.lastGap = socket.idle, !.idle = 0,
                   !.events = socket.events + 1]

\* the connection callback of net.createServer; a rejection of
\* runWithTransport is logged
DaemonAccept(connectFails) ==
    /\ listening
    /\ dexited = {}
    /\ conns' = Append(conns, NewSocket)
    /\ handlers' = NewHandler(handlers, Len(transports) + 1)
    /\ transports' = NewTransport(transports, Len(conns) + 1, Len(handlers'))
    /\ dlog' = IF connectFails THEN dlog \cup {LogDaemonTransportFailed}
               ELSE dlog
    /\ UNCHANGED <<dpc, handled, pending, written, fs, lifeVars, toolVars,
                   proxyVars>>

\* a message arrives on an open socket: every transport reading that
\* socket gives it to its onmessage handler
DaemonData(c) ==
    /\ dexited = {}
    /\ c \in 1..Len(conns)
    /\ conns[c].open
    /\ LET got == {[conn |-> c, handler |-> transports[t].onmessage] :
                     t \in {u \in 1..Len(transports) : transports[u].socket = c}}
       IN  /\ got \cap pending = {}
           /\ handled' = handled \cup got
           /\ pending' = pending \cup got
    /\ conns' = [conns EXCEPT ![c] = Traffic(conns[c])]
    /\ UNCHANGED <<dpc, dlog, transports, handlers, written, fs, lifeVars, toolVars,
                   proxyVars>>

\* a handler replies to a request: the reply goes to the transport its
\* Server is connected to and is written to that transport's socket, if the
\* socket is still open
DaemonReply(request) ==
    /\ dexited = {}
    /\ request \in pending
    /\ pending' = pending \ {request}
    /\ LET socket == transports[handlers[request.handler].transport].socket IN
       IF conns[socket].open
       THEN /\ written' = written \cup {[conn |-> request.conn,
                                        handler |-> request.handler,
                                        socket |-> socket]}
            /\ conns' = [conns EXCEPT ![socket] = Traffic(conns[socket])]
       ELSE UNCHANGED <<written, conns>>
    /\ UNCHANGED <<dpc, dlog, transports, handlers, handled, fs, lifeVars, toolVars,
                   proxyVars>>

\* time passes; no timer of an open socket is overdue
DaemonTick ==
    /\ dexited = {}
    /\ \E c \in 1..Len(conns) : conns[c].open
    /\ \A c \in 1..Len(conns) :
          conns[c].open => conns[c].idle < SOCKET_TIMEOUT_MS
    /\ conns' = [c \in 1..Len(conns) |->
                   IF conns[c].open
                   THEN [conns[c] EXCEPT !.idle = conns[c].idle + TickMs]
                   ELSE conns[c]]
    /\ UNCHANGED <<dpc, dlog, transports, handlers, handled, pending, written,
                   fs, lifeVars, toolVars,
                   proxyVars>>

\* variant: the timer fires before SOCKET_TIMEOUT_MS of silence
DaemonIdleTimeoutEarly(c) ==
    /\ dexited = {}
    /\ c \in 1..Len(conns)
    /\ conns[c].open
    /\ conns[c].idle >= SOCKET_TIMEOUT_MS - TickMs
    /\ conns' = [conns EXCEPT ![c].open = FALSE, ![c].closedBy = "idle"]
    /\ UNCHANGED <<dpc, dlog, transports, handlers, handled, pending, written,
                   fs, lifeVars, toolVars,
                   proxyVars>>

\* the 'timeout' callback given to socket.setTimeout: socket.destroy()
DaemonIdleTimeout(c) ==
    /\ dexited = {}
    /\ c \in 1..Len(conns)
    /\ conns[c].open
    /\ conns[c].idle >= SOCKET_TIMEOUT_MS
    /\ conns' = [conns EXCEPT ![c].open = FALSE, ![c].closedBy = "idle"]
    /\ UNCHANGED <<dpc, dlog, transports, handlers, handled, pending, written,
                   fs, lifeVars, toolVars,
                   proxyVars>>

\* the peer closes its end of the connection
DaemonPeerClose(c) ==
    /\ dexited = {}
    /\ c \in 1..Len(conns)
    /\ conns[c].open
    /\ conns' = [conns EXCEPT ![c].open = FALSE, ![c].closedBy = "peer"]
    /\ UNCHANGED <<dpc, dlog, transports, handlers, handled, pending, written,
                   fs, lifeVars, toolVars,
                   proxyVars>>

\* several connections at once, no time passing
DaemonNext ==
    \/ /\ Len(conns) < MaxConns
       /\ \E connectFails \in BOOLEAN : DaemonAccept(connectFails)
    \/ \E c \in 1..Len(conns) :
          conns[c].events < MaxConnEvents /\ DaemonData(c)
    \/ \E request \in pending : DaemonReply(request)
    \/ \E c \in 1..Len(conns) : DaemonPeerClose(c)

DaemonSpec == DaemonInit /\ [][DaemonNext]_vars

\* connections and their idle timers
IdleNext ==
    \/ /\ Len(conns) < MaxIdleConns
       /\ \E connectFails \in BOOLEAN : DaemonAccept(connectFails)
    \/ \E c \in 1..Len(conns) :
          conns[c].events < MaxIdleEvents /\ DaemonData(c)
    \/ \E request \in pending : DaemonReply(request)
    \/ DaemonTick
    \/ \E c \in 1..Len(conns) : DaemonIdleTimeout(c)
    \/ \E c \in 1..Len(conns) : DaemonPeerClose(c)

IdleSpec == DaemonInit /\ [][IdleNext]_vars

(***************************************************************************)
(* startMcpDaemon (mcp-daemon.ts): startup and termination                 *)
(***************************************************************************)
LogDaemonStartupFailed == "MCP daemon startup failed"

\* the umasks a daemon process is started with: 022, 077 and 0177
Umasks == {18, 63, 127}

\* variant: chmod leaves the mode as it was
chmodKeepsMode(st, mode) == st

\* fs.chmod(socketPath, mode): the permission bits are replaced
chmod(st, mode) == [st EXCEPT !.mode = (st.mode \div 4096) * 4096 + mode]

\* variant: whatever occupies the path is removed
StaleAny(st) == st.present

\* the entry startMcpDaemon removes: fs.stat succeeded and stat.isSocket()
StaleSocket(st) == st.present /\ isSocket(st)

\* the daemon writes the entry at socketPath (a proxy that is polling the
\* path sees the new entry from now on)
DaemonWrites(entry) ==
    /\ fs' = entry
    /\ rivalFile' = (rivalFile /\ entry = fs)
    /\ appearedAt' = IF entry = fs THEN appearedAt
                     ELSE IF validateSocketPermissions(entry, uid) = NoError
                     THEN elapsed
                     ELSE -1

\* what the daemon's startup and termination leave alone
lifeFrame == <<argvMode, pc, exitCode, log, stdout, mgrVars, uid, euid,
               rejected, polls, sleeps, passedOn, validatorError, connectVars,
               sessionVars, clockVars, cuts, transports, handlers, handled,
               written, toolVars>>

\* startMcpDaemon rejects: the catch of its call logs the failure and sets
\* process.exitCode
StartupFailed ==
    /\ dpc' = "failed"
    /\ dlog' = dlog \cup {LogDaemonStartupFailed}
    /\ dExitCode' = 1

\* startMcpDaemon up to its first await: the socket path is read from the
\* environment and the parent directory is made
DaemonStart(socketPath, mkdirFails) ==
    /\ dpc = "d_start"
    /\ dexited = {}
    /\ IF Falsy(socketPath)
       THEN StartupFailed /\ UNCHANGED dsteps
       ELSE /\ dsteps' = Append(dsteps, "mkdir")
            /\ IF mkdirFails THEN StartupFailed
               ELSE dpc' = "d_stat" /\ UNCHANGED <<dlog, dExitCode>>
    /\ UNCHANGED <<fs, appearedAt, rivalFile, dstat, listening, dexited, conns, pending,
                   lifeFrame>>

\* fs.stat(socketPath) settles; a missing entry throws into the empty catch
DaemonStat ==
    /\ dpc = "d_stat"
    /\ dexited = {}
    /\ dsteps' = Append(dsteps, "stat")
    /\ dstat' = fs
    /\ dpc' = IF StaleSocket(fs) THEN "d_unlink" ELSE "d_listen"
    /\ UNCHANGED <<fs, appearedAt, rivalFile, dlog, dExitCode, listening, dexited, conns,
                   pending, lifeFrame>>

\* fs.unlink(socketPath) settles; its failure on an entry that is gone is
\* swallowed by the same catch
DaemonUnlink ==
    /\ dpc = "d_unlink"
    /\ dexited = {}
    /\ dsteps' = Append(dsteps, "unlink")
    /\ DaemonWrites(Absent)
    /\ dpc' = "d_listen"
    /\ UNCHANGED <<dstat, dlog, dExitCode, listening, dexited, conns, pending,
                   lifeFrame>>

\* server.listen(socketPath) settles: bind() fails with EADDRINUSE on a path
\* that has an entry of any type, and the 'error' listener rejects; else it
\* makes a socket of mode 0777 & ~umask owned by the effective user
DaemonListen(mask) ==
    /\ dpc = "d_listen"
    /\ dexited = {}
    /\ dsteps' = Append(dsteps, "listen")
    /\ IF fs.present
       THEN StartupFailed /\ UNCHANGED <<fs, appearedAt, rivalFile, listening>>
       ELSE /\ DaemonWrites([present |-> TRUE,
                            mode |-> S_IFSOCK + (511 - mask),
                            uid |-> euid])
            /\ listening' = TRUE
            /\ dpc' = "d_chmod"
            /\ UNCHANGED <<dlog, dExitCode>>
    /\ UNCHANGED <<dstat, dexited, conns, pending, lifeFrame>>

\* fs.chmod(socketPath, 0o600) settles; when it succeeds 'MCP daemon socket
\* ready' is logged and the daemon's SIGTERM and SIGINT listeners are added
DaemonChmod ==
    /\ dpc = "d_chmod"
    /\ dexited = {}
    /\ IF fs.present
       THEN /\ DaemonWrites(chmod(fs, 384))
            /\ dsteps' = dsteps \o <<"chmod", "ready">>
            /\ dpc' = "ready"
            /\ UNCHANGED <<dlog, dExitCode>>
       ELSE /\ dsteps' = Append(dsteps, "chmod")
            /\ StartupFailed
            /\ UNCHANGED <<fs, appearedAt, rivalFile>>
    /\ UNCHANGED <<dstat, listening, dexited, conns, pending, lifeFrame>>

\* nothing keeps the event loop alive after a failed startup: the process
\* ends with process.exitCode
DaemonEnds ==
    /\ dpc = "failed"
    /\ dexited = {}
    /\ ~listening
    /\ \A c \in 1..Len(conns) : ~conns[c].open
    /\ dexited' = {dExitCode}
    /\ UNCHANGED <<fs, appearedAt, rivalFile, dpc, dsteps, dstat, dlog, dExitCode,
                   listening, conns, pending, lifeFrame>>

\* another process removes the socket file while the listener is bound
SocketFileRemoved ==
    /\ listening
    /\ dexited = {}
    /\ fs.present
    /\ DaemonWrites(Absent)
    /\ UNCHANGED <<dpc, dsteps, dstat, dlog, dExitCode, listening, dexited,
                   conns, pending, lifeFrame>>

\* what the listeners of SIGINT and of SIGTERM do, in the order they were
\* added: server.ts adds its own when the module is imported, and it logs
\* and calls process.exit(0); startMcpDaemon adds, once the socket is
\* ready, the one that calls shutdown(), which starts with server.close()
\* (the listeners runWithTransport adds per connection come later and only
\* resolve a promise)
SignalListeners ==
    <<"exit">> \o (IF dpc = "ready" THEN <<"shutdown">> ELSE <<>>)

\* the listeners process.emit runs, one after the other: process.exit ends
\* the process inside the listener that calls it
Ran(listeners) ==
    LET exits == {i \in 1..Len(listeners) : listeners[i] = "exit"}
    IN  IF exits = {} THEN listeners
        ELSE SubSeq(listeners, 1,
                    CHOOSE i \in exits : \A j \in exits : i <= j)

\* the daemon process receives SIGTERM or SIGINT
DaemonSignal(sig) ==
    /\ dexited = {}
    /\ LET ran == Ran(SignalListeners)
           exits == \E i \in 1..Len(ran) : ran[i] = "exit"
           shuts == \E i \in 1..Len(ran) : ran[i] = "shutdown"
       IN  /\ dsteps' = dsteps \o <<sig>>
                          \o (IF shuts THEN <<"server.close">> ELSE <<>>)
                          \o (IF exits THEN <<"exit">> ELSE <<>>)
           /\ listening' = (listening /\ ~shuts /\ ~exits)
           /\ dexited' = IF exits THEN {0} ELSE dexited
           /\ conns' = IF exits
                       THEN [c \in 1..Len(conns) |->
                               IF conns[c].open
                               THEN [conns[c] EXCEPT !.open = FALSE,
                                                     !.closedBy = "exit"]
                               ELSE conns[c]]
                       ELSE conns
           /\ pending' = IF exits THEN {} ELSE pending
    /\ UNCHANGED <<fs, appearedAt, rivalFile, dpc, dstat, dlog, dExitCode, lifeFrame>>

\* a daemon process that has just been started; the proxy is not considered
LifeInit ==
    /\ ProxyOff
    /\ uid = 1000
    /\ euid = 1000
    /\ fs \in FsEntries
    /\ dpc = "d_start"
    /\ dlog = {}
    /\ conns = <<>>
    /\ transports = <<>>
    /\ handlers = <<>>
    /\ handled = {}
    /\ pending = {}
    /\ written = {}
    /\ dsteps = <<>>
    /\ dstat = Absent
    /\ listening = FALSE
    /\ dExitCode = 0
    /\ dexited = {}
    /\ rivalFile \in {b \in BOOLEAN : b => fs.present /\ isSocket(fs)}
    /\ ToolsIdle

\* the daemon from its start; termination requests arrive once it is ready
LifeNext ==
    \/ \E socketPath \in SocketPaths, mkdirFails \in BOOLEAN :
          DaemonStart(socketPath, mkdirFails)
    \/ DaemonStat
    \/ DaemonUnlink
    \/ \E mask \in Umasks : DaemonListen(mask)
    \/ DaemonChmod
    \/ DaemonEnds
    \/ SocketFileRemoved
    \/ /\ Len(conns) < MaxLifeConns
       /\ \E connectFails \in BOOLEAN : DaemonAccept(connectFails)
    \/ \E c \in 1..Len(conns) :
          conns[c].events < MaxLifeEvents /\ DaemonData(c)
    \/ \E request \in pending : DaemonReply(request)
    \/ \E c \in 1..Len(conns) : DaemonPeerClose(c)
    \/ \E sig \in {"SIGTERM", "SIGINT"} : dpc = "ready" /\ DaemonSignal(sig)

LifeSpec == LifeInit /\ [][LifeNext]_vars

(***************************************************************************)
(* The tool handlers of MCPShellServer (server.ts)                         *)
(***************************************************************************)
\* The value of MCP_DISABLED_TOOLS is a sequence of tokens: a token is the
\* text of a tool name, a comma or a blank.  A string is the sequence of its
\* tokens, so a tool name is a string of one token.
EnvValues ==
    {<<>>} \cup SeqsUpTo({"shell_execute", "server_current",
                          "unknown_tool_for_e2e", ",", " "}, MaxEnvTokens)

\* String.split(','): the pieces between the commas
RECURSIVE split(_)
split(text) ==
    LET i == IndexOf(text, ",") IN
    IF i = 0 THEN <<text>>
    ELSE <<SubSeq(text, 1, i - 1)>> \o split(SubSeq(text, i + 1, Len(text)))

\* variant: the pieces are taken as they are
trimNothing(text) == text

\* String.trim(): the blanks at both ends are removed
RECURSIVE trim(_)
trim(text) ==
    IF text # <<>> /\ text[1] = " " THEN trim(Tail(text))
    ELSE IF text # <<>> /\ text[Len(text)] = " "
    THEN trim(SubSeq(text, 1, Len(text) - 1))
    ELSE text

\* DISABLED_TOOLS: (process.env['MCP_DISABLED_TOOLS'] || '').split(',')
\*                   .map((t) => t.trim()).filter((t) => t.length > 0)
DISABLED_TOOLS ==
    LET pieces == split(disabledEnv)
        trimmed == [i \in 1..Len(pieces) |-> trim(pieces[i])]
    IN  SelectSeq(trimmed, LAMBDA t : Len(t) > 0)

\* DISABLED_TOOLS.includes(name)
includes(list, name) == \E i \in 1..Len(list) : list[i] = <<name>>

\* the tools of the ListTools handler, in its order
Catalog ==
    <<"shell_execute", "process_get_execution", "shell_set_default_workdir",
      "list_execution_outputs", "read_execution_output",
      "delete_execution_outputs", "get_cleanup_suggestions",
      "perform_auto_cleanup", "terminal_operate", "terminal_list",
      "terminal_get_info", "terminal_close", "command_history_query",
      "server_current", "server_list_attachable", "server_start",
      "server_stop", "server_get", "server_detach", "server_reattach">>

\* the names parseServerParams and parseNonServerParams have a case for
ServerTools ==
    {"server_current", "server_list_attachable", "server_start",
     "server_stop", "server_get", "server_detach", "server_reattach"}
NonServerTools ==
    {"process_get_execution", "shell_set_default_workdir",
     "list_execution_outputs", "read_execution_output",
     "delete_execution_outputs", "get_cleanup_suggestions",
     "perform_auto_cleanup", "terminal_operate", "terminal_list",
     "terminal_get_info", "terminal_close", "command_history_query"}

\* what a handler returns or throws
Success == [kind |-> "result", class |-> "", code |-> "", text |-> "",
            name |-> ""]
Thrown(class, text) == [kind |-> "error", class |-> class, code |-> "",
                        text |-> text, name |-> ""]
McpError(code, text, name) == [kind |-> "error", class |-> "McpError",
                               code |-> code, text |-> text, name |-> name]

\* parseServerParams / parseNonServerParams: null for a name without a case,
\* else what Schema.parse makes of the value the case hands it (the
\* arguments; for server_current and server_list_attachable a value made
\* from them); argsValid says whether the schema accepts that value
parseServerParams(name, argsValid) ==
    IF name \notin ServerTools THEN "null"
    ELSE IF argsValid THEN "parsed" ELSE "ZodError"

\* variant: arguments the schema refuses are treated like an unknown name
parseNonServerParamsLax(name, argsValid) ==
    IF name \notin NonServerTools \/ ~argsValid THEN "null" ELSE "parsed"

parseNonServerParams(name, argsValid) ==
    IF name \notin NonServerTools THEN "null"
    ELSE IF argsValid THEN "parsed" ELSE "ZodError"

\* dispatchToolCall of @mako10k/shell-server/runtime: for a tool it knows,
\* the result or the error that running the tool gives; for any other name
\* it throws Error('Unsupported tool: <name>')
dispatchToolCall(name, outcome) ==
    IF \E i \in 1..Len(Catalog) : Catalog[i] = name
    THEN (IF outcome = "result" THEN Success ELSE Thrown(outcome, "tool failed"))
    ELSE Thrown("Error", "Unsupported tool:")

\* variant: no error is recognised as the dispatcher's 'Unsupported tool:'
IsUnsupportedNever(error) == FALSE

\* error instanceof Error && error.message.startsWith('Unsupported tool:')
IsUnsupported(error) == error.kind = "error" /\ error.text = "Unsupported tool:"

\* the try block of the CallTool handler: the steps it takes on the
\* arguments and what it returns or throws
CallToolTry(name, argsValid, outcome) ==
    IF includes(DISABLED_TOOLS, name)
    THEN [steps |-> <<>>,
          response |-> McpError("MethodNotFound", "Tool is disabled", name)]
    ELSE IF name = "shell_execute"
    THEN (IF argsValid
          THEN [steps |-> <<"parse", "dispatch">>,
                response |-> dispatchToolCall(name, outcome)]
          ELSE [steps |-> <<"parse">>, response |-> Thrown("ZodError", "")])
    ELSE IF parseServerParams(name, argsValid) # "null"
    THEN (IF parseServerParams(name, argsValid) = "parsed"
          THEN [steps |-> <<"parse", "dispatch">>,
                response |-> dispatchToolCall(name, outcome)]
          ELSE [steps |-> <<"parse">>, response |-> Thrown("ZodError", "")])
    ELSE IF parseNonServerParams(name, argsValid) # "null"
    THEN (IF parseNonServerParams(name, argsValid) = "parsed"
          THEN [steps |-> <<"parse", "dispatch">>,
                response |-> dispatchToolCall(name, outcome)]
          ELSE [steps |-> <<"parse">>, response |-> Thrown("ZodError", "")])
    ELSE LET r == dispatchToolCall(name, outcome) IN
         [steps |-> <<"dispatch">>,
          response |-> IF IsUnsupported(r)
                       THEN McpError("MethodNotFound", "Unknown tool", name)
                       ELSE r]

\* the CallTool handler: its outer catch turns an MCPShellError into an
\* InvalidRequest McpError and rethrows everything else
CallTool(name, argsValid, outcome) ==
    LET t == CallToolTry(name, argsValid, outcome) IN
    [name |-> name, argsValid |-> argsValid, outcome |-> outcome,
     steps |-> t.steps,
     response |-> IF t.response.kind = "error"
                     /\ t.response.class = "MCPShellError"
                  THEN McpError("InvalidRequest", t.response.text, "")
                  ELSE t.response]

\* the ListTools handler:
\* [...].filter((tool) => !DISABLED_TOOLS.includes(tool.name))
HandleListTools ==
    /\ dexited = {}
    /\ listed' = [replied |-> TRUE,
                  tools |-> SelectSeq(Catalog,
                              LAMBDA t : ~includes(DISABLED_TOOLS, t))]
    /\ UNCHANGED <<disabledEnv, lastCall, fs, dpc, dlog, conns, transports,
                   handlers, handled, pending, written, lifeVars, proxyVars>>

\* a tools/call request is handled; argsValid and outcome are what the
\* schema and the tool would make of this request
HandleCallTool(name, argsValid, outcome) ==
    /\ dexited = {}
    /\ lastCall' = CallTool(name, argsValid, outcome)
    /\ UNCHANGED <<disabledEnv, listed, fs, dpc, dlog, conns, transports,
                   handlers, handled, pending, written, lifeVars, proxyVars>>

\* a server whose module was loaded with any value of MCP_DISABLED_TOOLS
ToolInit ==
    /\ ProxyOff
    /\ uid = 1000
    /\ euid = 1000
    /\ fs = ValidSocket
    /\ dpc = "ready"
    /\ dlog = {}
    /\ conns = <<>>
    /\ transports = <<>>
    /\ handlers = <<>>
    /\ handled = {}
    /\ pending = {}
    /\ written = {}
    /\ dsteps = <<"mkdir", "stat", "listen", "chmod", "ready">>
    /\ dstat = Absent
    /\ listening = TRUE
    /\ dExitCode = 0
    /\ dexited = {}
    /\ rivalFile = FALSE
    /\ disabledEnv \in EnvValues
    /\ listed = NoList
    /\ lastCall = NoCall

\* the names asked for are catalog tools of each parsing branch, the name
\* the end-to-end test uses, and the tool the catalog has commented out
ToolNext ==
    \/ HandleListTools
    \/ \E name \in {"shell_execute", "server_current", "process_get_execution",
                    "unknown_tool_for_e2e", "adjust_criteria"},
          argsValid \in BOOLEAN,
          outcome \in {"result", "MCPShellError", "Error"} :
          HandleCallTool(name, argsValid, outcome)

ToolSpec == ToolInit /\ [][ToolNext]_vars

(***************************************************************************)
(* The proxy's readiness validation beside a daemon that is starting       *)
(***************************************************************************)
\* main has called runDaemonProxy with the child's socket path, and the
\* daemon process of the same user has just been started on that path,
\* which is free or holds the socket a former daemon left
RaceInit ==
    /\ argvMode = "proxy"
    /\ pc = "v_stat"
    /\ exitCode = {}
    /\ log = {}
    /\ stdout = <<>>
    /\ mgrCalls = <<"start:allowExisting", "get">>
    /\ gets = <<ChildSocketPath>>
    /\ proxyCalls = <<ChildSocketPath>>
    /\ uid = 1000
    /\ euid = 1000
    /\ fs \in {Absent, ValidSocket}
    /\ elapsed = 0
    /\ wakeAt = 0
    /\ polls = 1
    /\ sleeps = 0
    /\ passedOn = Absent
    /\ appearedAt = IF fs = ValidSocket THEN 0 ELSE -1
    /\ validatorError = NoError
    /\ rejected = NoError
    /\ attempts = 0
    /\ lastError = NoError
    /\ connected = FALSE
    /\ readBuffer = Undefined
    /\ stdinAll = <<>>
    /\ outcomes = <<>>
    /\ stdinClosed = FALSE
    /\ closeCalls = 0
    /\ sendFailedAt = -1
    /\ delivered = <<>>
    /\ stdinPipe = <<>>
    /\ cuts = {}
    /\ dpc = "d_start"
    /\ dlog = {}
    /\ conns = <<>>
    /\ transports = <<>>
    /\ handlers = <<>>
    /\ handled = {}
    /\ pending = {}
    /\ written = {}
    /\ dsteps = <<>>
    /\ dstat = Absent
    /\ listening = FALSE
    /\ dExitCode = 0
    /\ dexited = {}
    /\ rivalFile = FALSE
    /\ ToolsIdle

\* waitForSocketReady and startMcpDaemon step by step, in any interleaving
RaceNext ==
    \/ Tick
    \/ StatReturns
    \/ SocketTimerFires
    \/ ValidationFailed
    \/ \E mkdirFails \in BOOLEAN : DaemonStart(ChildSocketPath, mkdirFails)
    \/ DaemonStat
    \/ DaemonUnlink
    \/ \E mask \in Umasks : DaemonListen(mask)
    \/ DaemonChmod
    \/ DaemonEnds

RaceSpec == RaceInit /\ [][RaceNext]_vars

(***************************************************************************)
(* One proxy session, from runDaemonProxy's first poll to the end of the   *)
(* process, against the daemon listener behind the socket path             *)
(***************************************************************************)
\* the client writes to the proxy's stdin before runDaemonProxy has added
\* its 'data' listener: process.stdin is not read yet and the bytes wait
ClientWrites(bytes) ==
    /\ pc \in TimedPcs \cup {"v_passed", "rdp_catch", "c_returned"}
    /\ stdinPipe' = stdinPipe \o bytes
    /\ UNCHANGED <<pc, exitCode, log, stdout, mgrVars, fs, rejected, envVars,
                   validatorVars, connectVars, readBuffer, stdinAll, outcomes,
                   stdinClosed, closeCalls, sendFailedAt, delivered,
                   clockVars>>

\* how a transport.start() call made now settles: the connect reaches the
\* listener bound to the path, is refused by a socket file nobody listens
\* on, or finds no entry
StartOutcome ==
    IF ~fs.present THEN "ENOENT"
    ELSE IF listening /\ dexited = {} THEN "connected"
    ELSE "ECONNREFUSED"

\* the proxy's socket has closed: the daemon destroyed the connection, or
\* the proxy's own transport.close() went through; the transport then
\* calls onclose
TransportClosed ==
    \/ conns # <<>> /\ ~conns[1].open
    \/ closeCalls > 0

\* main has called runDaemonProxy with the child's socket path.  Behind
\* the path there is no daemon (the path is free or holds a socket a
\* former daemon left), or a daemon of the same user that is about to bind
BridgeInit ==
    /\ argvMode = "proxy"
    /\ pc = "v_stat"
    /\ exitCode = {}
    /\ log = {}
    /\ stdout = <<>>
    /\ mgrCalls = <<"start:allowExisting", "get">>
    /\ gets = <<ChildSocketPath>>
    /\ proxyCalls = <<ChildSocketPath>>
    /\ uid = 1000
    /\ euid = 1000
    /\ dpc \in {"off", "d_listen"}
    /\ fs \in IF dpc = "off" THEN {Absent, ValidSocket} ELSE {Absent}
    /\ elapsed = 0
    /\ wakeAt = 0
    /\ polls = 1
    /\ sleeps = 0
    /\ passedOn = Absent
    /\ appearedAt = IF fs = ValidSocket THEN 0 ELSE -1
    /\ validatorError = NoError
    /\ rejected = NoError
    /\ attempts = 0
    /\ lastError = NoError
    /\ connected = FALSE
    /\ readBuffer = Undefined
    /\ stdinAll = <<>>
    /\ outcomes = <<>>
    /\ stdinClosed = FALSE
    /\ closeCalls = 0
    /\ sendFailedAt = -1
    /\ delivered = <<>>
    /\ stdinPipe = <<>>
    /\ cuts = {}
    /\ dlog = {}
    /\ conns = <<>>
    /\ transports = <<>>
    /\ handlers = <<>>
    /\ handled = {}
    /\ pending = {}
    /\ written = {}
    /\ dsteps = IF dpc = "off" THEN <<>> ELSE <<"mkdir", "stat">>
    /\ dstat = Absent
    /\ listening = FALSE
    /\ dExitCode = 0
    /\ dexited = {}
    /\ rivalFile = FALSE
    /\ ToolsIdle

\* the proxy and the listener step by step; the connection the listener
\* accepts is the proxy's, and what one end writes the other end reads
BridgeNext ==
    \/ Tick
    \/ StatReturns
    \/ SocketTimerFires
    \/ ValidationFailed
    \/ ValidationPassed
    \/ StartOutcome = "connected" /\ StartResolves
    \/ StartOutcome # "connected" /\ StartRejects(StartOutcome, TRUE)
    \/ ConnectTimerFires
    \/ RegisterStdin
    \/ \E bytes \in SeqsUpTo({LF, 97}, MaxEarlyBytes - Len(stdinPipe)) :
          ClientWrites(bytes)
    \/ \E n \in 1..Len(stdinPipe) : StdinData(SubSeq(stdinPipe, 1, n), FALSE)
    \/ stdinPipe = <<>> /\ StdinClose(FALSE)
    \/ \E message \in DeliverableMessages :
          Len(delivered) < Cardinality(written) /\ TransportMessage(message)
    \/ TransportClosed /\ TransportClose
    \/ \E mask \in Umasks : DaemonListen(mask)
    \/ DaemonChmod
    \/ connected /\ conns = <<>> /\ DaemonAccept(FALSE)
    \/ Returned(outcomes) /\ handled = {} /\ DaemonData(1)
    \/ \E request \in pending : DaemonReply(request)
    \/ DaemonTick
    \/ DaemonIdleTimeout(1)
    \/ (exitCode # {} \/ closeCalls > 0) /\ DaemonPeerClose(1)

BridgeSpec == BridgeInit /\ [][BridgeNext]_vars

(***************************************************************************)
(* Reference notions used by the properties                                *)
(***************************************************************************)
IsPrefix(s, t) == Len(s) <= Len(t) /\ SubSeq(t, 1, Len(s)) = s

\* the newline-terminated records of a byte sequence, without their newline
RECURSIVE CompleteLines(_)
CompleteLines(bytes) ==
    LET i == IndexOf(bytes, LF) IN
    IF i = 0 THEN <<>>
    ELSE <<SubSeq(bytes, 1, i - 1)>>
             \o CompleteLines(SubSeq(bytes, i + 1, Len(bytes)))

\* a caller that calls readMessage until it returns null, catching throws
RECURSIVE Drain(_, _)
Drain(buffer, acc) ==
    LET r == readMessage(buffer) IN
    IF r.kind = "null" THEN acc
    ELSE Drain(r.buffer, Append(acc, Outcome(r)))

\* the outcomes of delivering bytes as one chunk and draining
SingleChunkOutcomes(bytes) == Drain(append(Undefined, bytes), <<>>)

\* an entry that exists but is not a socket of mode 0600 owned by the user
InvalidEntry(st) ==
    /\ st.present
    /\ \/ st.mode \notin {S_IFSOCK + m : m \in 0..511}
       \/ st.mode # S_IFSOCK + 384
       \/ st.uid # uid

SecurityErrors == {ErrNotSocket, ErrMode, ErrOwner}

\* the message a newline-terminated record stands for, NoValue if it does
\* not parse as JSON or is not a protocol message
RecordValue(line) ==
    LET json == JSONParse(StripCR(Utf8Decode(line))) IN
    IF json.ok /\ json.value.kind \in MessageKinds THEN json.value ELSE NoValue

\* the messages of the well-formed newline-terminated records, in order
WellFormedMessages(bytes) ==
    LET lines == CompleteLines(bytes)
        good == SelectSeq(lines, LAMBDA l : RecordValue(l) # NoValue)
    IN  [i \in 1..Len(good) |-> RecordValue(good[i])]

\* the messages passed to transport.send, in order
Sent ==
    LET ms == SelectSeq(outcomes, LAMBDA o : o.kind = "message")
    IN  [i \in 1..Len(ms) |-> ms[i].value]

\* write is the JSON text of message and one '\n', nothing else
IsRecordOf(write, message) ==
    /\ Len(write) >= 2
    /\ write[Len(write)] = LF
    /\ LET body == SubSeq(write, 1, Len(write) - 1) IN
       /\ \A i \in 1..Len(body) : body[i] \notin JSONWhitespace
       /\ JSONParse(Utf8Decode(body)) = [ok |-> TRUE, value |-> message]

(***************************************************************************)
(* Properties                                                              *)
(***************************************************************************)

\* C1: when the stat of a poll finds an entry that is not a socket, or whose
\* permission bits are not 0600, or whose owner is not the current user,
\* waitForSocketReady fails at that poll with the corresponding error: no
\* sleep is taken, no time is waited and no later poll is made, whatever
\* time remains before the deadline.
C1_SecurityFailureIsImmediate ==
    [][ /\ (pc = "v_stat" /\ pc' # "v_stat" /\ InvalidEntry(fs))
           => /\ pc' = "rdp_catch"
              /\ validatorError' \in SecurityErrors
              /\ polls' = polls /\ sleeps' = sleeps /\ elapsed' = elapsed
        /\ (validatorError \in SecurityErrors)
           => /\ polls' = polls /\ sleeps' = sleeps
              /\ validatorError' = validatorError
       ]_vars

\* C1 witness: a regular file present at the first poll: one stat, no sleep,
\* failure with the whole time budget left
C1_Witness ==
    /\ validatorError = ErrNotSocket
    /\ polls = 1 /\ sleeps = 0 /\ elapsed = 0
    /\ fs.mode = S_IFREG + 384

\* C2 (as claimed): validation passes only on a stat result that is a socket
\* with permission bits 0600 owned by the effective user id of the process.
C2_PassNeedsSocketModeEffectiveOwner ==
    passedOn.present =>
        /\ passedOn.mode = S_IFSOCK + 384
        /\ passedOn.uid = euid

\* C3: transport.start is called only after waitForSocketReady has returned;
\* when waitForSocketReady throws, no transport.start call is made and
\* runDaemonProxy rejects with the very error waitForSocketReady threw.
C3_ValidateBeforeConnect ==
    /\ (attempts > 0 \/ connected \/ lastError # NoError)
          => (passedOn.present /\ validatorError = NoError)
    /\ validatorError # NoError
          => /\ attempts = 0 /\ ~connected /\ ~passedOn.present
             /\ pc = "exited" => (rejected = validatorError /\ exitCode = {1})

\* C3 witness: validation timed out and the timeout error reached main
C3_Witness ==
    /\ pc = "exited"
    /\ validatorError = ErrSocketTimeout
    /\ rejected = ErrSocketTimeout
    /\ attempts = 0

\* C4: a failed transport.start is followed by another attempt only when it
\* failed with ECONNREFUSED and, after the 200 ms wait, fewer than 2000 ms
\* have elapsed; a failure with any other code is thrown at once: no wait and
\* no further attempt.
C4_RetryOnlyOnRefused ==
    [][ /\ (pc = "c_start" /\ pc' # "c_start" /\ ~connected'
              /\ lastError'.code # "ECONNREFUSED")
           => /\ pc' = "exited" /\ exitCode' = {1}
              /\ rejected' = lastError'
              /\ attempts' = attempts /\ sleeps' = sleeps /\ elapsed' = elapsed
        /\ (attempts >= 1 /\ attempts' > attempts)
           => /\ pc = "c_sleep" /\ lastError.code = "ECONNREFUSED"
              /\ elapsed < TRANSPORT_READY_TIMEOUT_MS
              /\ attempts' = attempts + 1
        /\ (pc = "exited" /\ connected = FALSE) => attempts' = attempts
       ]_vars

\* C4 witness: a refused attempt was retried once, then an EACCES failure
\* ended the loop at once
C4_Witness ==
    /\ pc = "exited"
    /\ rejected = ErrConnect("EACCES")
    /\ attempts = 2 /\ sleeps = 1
    /\ elapsed < TRANSPORT_READY_TIMEOUT_MS

\* C5: however the appended bytes were split into chunks, and whenever
\* readMessage was called in between, the outcomes obtained so far are the
\* first outcomes of delivering the same bytes as one chunk, and once
\* readMessage returns null they are all of them.
C5_ChunkingInvariance ==
    /\ IsPrefix(outcomes, SingleChunkOutcomes(stdinAll))
    /\ readMessage(readBuffer).kind = "null"
          => outcomes = SingleChunkOutcomes(stdinAll)

\* the state in which SessionSpec starts is a state of the whole program
SessionInitReached ==
    /\ pc = "steady" /\ connected /\ log = {} /\ euid = uid
    /\ mgrCalls = <<"start:allowExisting", "get">>
    /\ gets = <<ChildSocketPath>> /\ proxyCalls = <<ChildSocketPath>>
    /\ closeCalls = 0 /\ sendFailedAt = -1
    /\ fs = ValidSocket /\ passedOn = ValidSocket
    /\ stdinAll = <<>> /\ delivered = <<>> /\ ~stdinClosed

\* C5 witness: a chunk ended inside the two-byte character of a record that
\* was then returned as a message, another ended between '\r' and '\n', and
\* two records have been read
C5_Witness ==
    /\ \E c \in cuts : stdinAll[c] = 195 /\ stdinAll[c + 1] = 169
    /\ \E c \in cuts : stdinAll[c] = CR /\ stdinAll[c + 1] = LF
    /\ \E i \in 1..Len(outcomes) :
          outcomes[i].kind = "message" /\ outcomes[i].value.id = 3
    /\ Len(outcomes) = 2
    /\ readMessage(readBuffer).kind = "null"

\* C6: at every moment the messages passed to transport.send are, in stdin
\* order and without gap, the first of the well-formed newline-terminated
\* records received on stdin; and stdout holds one write per message
\* delivered by the transport, in delivery order, each the record of its
\* message.
C6_OrderPreserved ==
    /\ IsPrefix(Sent, WellFormedMessages(stdinAll))
    /\ Len(stdout) = Len(delivered)
    /\ \A i \in 1..Len(stdout) : IsRecordOf(stdout[i], delivered[i])

\* C6 witness: two different requests were sent and two different messages
\* were written
C6_Witness ==
    /\ Len(Sent) = 2 /\ Sent[1].id = 2 /\ Sent[2].id = 1
    /\ Len(delivered) = 2 /\ delivered[1].id = 3 /\ delivered[2].id = 1
    /\ Len(stdout) = 2

\* C7: the i-th result of readMessage in the stdin handler consumed the i-th
\* newline-terminated record of stdin; a message is passed to transport.send
\* only if that record parses as JSON and is a protocol message, and the
\* message is the one the record stands for.
C7_OnlyValidatedRecordsForwarded ==
    LET lines == CompleteLines(stdinAll) IN
    /\ Len(outcomes) <= Len(lines)
    /\ \A i \in 1..Len(outcomes) :
          outcomes[i].kind = "message"
             => /\ outcomes[i].value.kind \in MessageKinds
                /\ outcomes[i].value = RecordValue(lines[i])

\* C7 witness: a record that is JSON but no protocol message was rejected and
\* a request was forwarded
C7_Witness ==
    /\ \E i \in 1..Len(outcomes) :
          outcomes[i].kind = "throw" /\ outcomes[i].line = <<106>>
    /\ \E i \in 1..Len(outcomes) : outcomes[i].kind = "message"
    /\ Len(Sent) = 1

\* C8 (as claimed, in the form a finite run decides): when stdin has closed,
\* every well-formed newline-terminated record that was received on stdin
\* has been passed to transport.send.
C8_EveryWellFormedRecordSent ==
    stdinClosed => Sent = WellFormedMessages(stdinAll)

\* C9: the step in which the transport delivers a message appends exactly one
\* write to stdout, the JSON text of that message (same id) followed by one
\* '\n'; no other step writes to stdout.
C9_ImmediateExactRecord ==
    [][ /\ delivered' # delivered
           => \E m \in DeliverableMessages :
                 /\ delivered' = Append(delivered, m)
                 /\ Len(stdout') = Len(stdout) + 1
                 /\ SubSeq(stdout', 1, Len(stdout)) = stdout
                 /\ IsRecordOf(stdout'[Len(stdout')], m)
        /\ stdout' # stdout => delivered' # delivered
       ]_vars

\* C9 witness: the reply with id 1 was delivered and stdout holds exactly its
\* record
C9_Witness ==
    /\ delivered = <<[kind |-> "result", id |-> 1]>>
    /\ stdout = <<<<114, LF>>>>

\* C10: in a run without --help or --version, stdout holds nothing but
\* records of messages the transport delivered, and a step that logs a
\* diagnostic writes nothing to stdout.
C10_StdoutOnlyProtocol ==
    /\ [](argvMode = "proxy"
            => /\ Len(stdout) <= Len(delivered)
               /\ \A i \in 1..Len(stdout) :
                     \E j \in 1..Len(delivered) :
                        IsRecordOf(stdout[i], delivered[j]))
    /\ [][(argvMode = "proxy" /\ log' # log) => stdout' = stdout]_vars

\* C10 witness: a parse failure, a send failure, a refused connection and a
\* transport error were logged, the transport closed, and stdout holds one
\* record
C10_Witness ==
    /\ argvMode = "proxy"
    /\ {LogParseFailed, LogSendFailed, LogTransportClosed,
        TransportErrorMessage("ECONNREFUSED"),
        TransportErrorMessage("EPIPE")} \subseteq log
    /\ Len(stdout) = 1

\* C11 (as claimed, in the form a finite run decides): once a transport.send
\* failure has been logged the process has not exited with a failure code,
\* stdin is still read, and when stdin has closed every well-formed
\* newline-terminated record that stdin delivered after the failure has been
\* passed to transport.send.
C11_SendFailureLosesNoLaterRecord ==
    LET before == WellFormedMessages(SubSeq(stdinAll, 1, sendFailedAt))
        all == WellFormedMessages(stdinAll)
    IN  sendFailedAt >= 0
           => /\ LogSendFailed \in log
              /\ exitCode \in {{}, {0}}
              /\ (stdinClosed /\ Len(all) > Len(before)) => Sent = all

\* the entry is what validateSocketPermissions demands: a socket with
\* permission bits 0600 owned by the user process.getuid() names
ValidEntry(st) == st.present /\ st.mode = S_IFSOCK + 384 /\ st.uid = uid

\* C12: a poll that finds no entry at the path neither fails nor passes: the
\* validator sleeps SOCKET_READY_INTERVAL_MS; when the timer has fired it
\* polls again if less than SOCKET_READY_TIMEOUT_MS have elapsed and fails
\* with the timeout error otherwise; no poll is made at or after the
\* deadline and the timeout error is thrown only at or after it.
C12_AbsentPathPolledUntilDeadline ==
    [][ /\ (pc = "v_stat" /\ pc' # "v_stat" /\ ~fs.present)
           => /\ pc' = "v_sleep"
              /\ wakeAt' = elapsed + SOCKET_READY_INTERVAL_MS
              /\ validatorError' = NoError /\ exitCode' = {}
        /\ (pc = "v_sleep" /\ pc' # "v_sleep")
           => /\ elapsed >= wakeAt
              /\ IF elapsed < SOCKET_READY_TIMEOUT_MS
                 THEN pc' = "v_stat" /\ polls' = polls + 1
                 ELSE /\ pc' = "rdp_catch" /\ polls' = polls
                      /\ validatorError' = ErrSocketTimeout
        /\ polls' > polls => elapsed' < SOCKET_READY_TIMEOUT_MS
        /\ (validatorError' = ErrSocketTimeout /\ validatorError = NoError)
           => elapsed >= SOCKET_READY_TIMEOUT_MS /\ ~passedOn.present
       ]_vars

\* C12 witness: the path stayed absent: polls at 0, 200, ..., 2800 ms, a
\* sleep after each, and the timeout error at 3000 ms
C12_Witness ==
    /\ validatorError = ErrSocketTimeout
    /\ polls = 15 /\ sleeps = 15 /\ elapsed = SOCKET_READY_TIMEOUT_MS
    /\ ~fs.present

C14_RefusedThenConnected ==
    [][ /\ (pc = "c_start" /\ pc' \notin {"c_start", "c_returned"}
              /\ lastError'.code = "ECONNREFUSED")
           => /\ pc' = "c_sleep"
              /\ wakeAt' = elapsed + TRANSPORT_READY_INTERVAL_MS
              /\ exitCode' = {} /\ rejected' = NoError
        /\ (pc = "c_sleep" /\ pc' # "c_sleep"
              /\ elapsed < TRANSPORT_READY_TIMEOUT_MS)
           => /\ pc' = "c_start" /\ attempts' = attempts + 1
              /\ exitCode' = {} /\ rejected' = NoError
        /\ (pc = "c_start" /\ connected')
           => /\ pc' = "c_returned" /\ log' = log
              /\ exitCode' = {} /\ rejected' = NoError
        /\ (pc = "c_returned" /\ pc' # "c_returned")
           => /\ pc' = "steady" /\ connected' /\ log' = log
              /\ exitCode' = {} /\ rejected' = NoError
       ]_vars

\* C14 witness: the attempts at 0, 200, ..., 1600 ms were refused and the
\* tenth, at 1800 ms, succeeded
C14_Witness ==
    /\ pc = "c_returned" /\ connected
    /\ attempts = 10 /\ sleeps = 9 /\ elapsed = 1800
    /\ lastError = ErrConnect("ECONNREFUSED")
    /\ exitCode = {} /\ rejected = NoError

\* the calls of the two rounds of main, in order
Rounds == <<"start:allowExisting", "get", "stop:force", "start:clean", "get">>
NoPath(socketPath) == socketPath \in {UndefinedPath, ""}

\* C15: the server manager calls made are the first of: start allowing an
\* existing instance, get, forced stop, clean start, get.  The forced stop is
\* made exactly when the first get gave no socket path; the missing socket
\* path is fatal only after the second get gave none either; runDaemonProxy
\* is called at most once, with the non-empty path the last get gave.
C15_SingleCleanRetry ==
    /\ IsPrefix(mgrCalls, Rounds)
    /\ Cardinality({i \in 1..Len(mgrCalls) :
          mgrCalls[i] \in {"start:allowExisting", "start:clean"}}) <= 2
    /\ Cardinality({i \in 1..Len(mgrCalls) : mgrCalls[i] = "stop:force"}) <= 1
    /\ Len(gets) <= 2
    /\ Len(mgrCalls) >= 3 <=> (Len(gets) >= 1 /\ NoPath(gets[1]))
    /\ rejected = ErrNoSocketPath
          <=> (Len(gets) = 2 /\ NoPath(gets[1]) /\ NoPath(gets[2]))
    /\ rejected = ErrNoSocketPath => mgrCalls = Rounds
    /\ Len(proxyCalls) <= 1
    /\ proxyCalls # <<>>
          => /\ ~NoPath(proxyCalls[1])
             /\ proxyCalls[1] = gets[Len(gets)]

\* C15 witness: the first get gave an empty socket path, the instance was
\* stopped and started clean, and runDaemonProxy was called with the path
\* the second get gave
C15_Witness ==
    /\ mgrCalls = Rounds
    /\ gets = <<"", ChildSocketPath>>
    /\ proxyCalls = <<ChildSocketPath>>

\* the errors that end the startup of the proxy
StartupFailures ==
    {ErrManager, ErrNoSocketPath, ErrSocketTimeout, ErrTransportTimeout}
       \cup SecurityErrors \cup {ErrConnect(code) : code \in ConnectCodes}

\* C16: an error caught by main's try block ends the process with code 1
\* after main has logged it (and runDaemonProxy has logged a validation
\* failure); a proxy that ended without having connected ended this way,
\* and never with code 0.
C16_StartupFailureExitsOne ==
    /\ rejected # NoError
          => /\ rejected \in StartupFailures
             /\ pc = "exited" /\ exitCode = {1}
             /\ LogMainFailed \in log
             /\ validatorError # NoError => LogValidationFailed \in log
    /\ (argvMode = "proxy" /\ pc = "exited" /\ ~connected)
          => rejected # NoError /\ exitCode = {1}

\* C16 witness: every attempt was refused until the connect deadline; the
\* process logged the failure and exited with code 1
C16_Witness ==
    /\ pc = "exited" /\ exitCode = {1}
    /\ rejected = ErrConnect("ECONNREFUSED")
    /\ attempts = 10 /\ elapsed >= TRANSPORT_READY_TIMEOUT_MS
    /\ LogMainFailed \in log

\* C17: once the connected transport has closed, the process has exited with
\* code 0.
C17_TransportCloseExitsZero ==
    LogTransportClosed \in log
       => connected /\ pc = "exited" /\ exitCode = {0}

\* C17 witness: the transport closed while stdin was still open, after a
\* message had been forwarded
C17_Witness ==
    /\ LogTransportClosed \in log
    /\ pc = "exited" /\ exitCode = {0}
    /\ ~stdinClosed /\ Len(Sent) = 1

\* C18: the step that handles the close of stdin empties the framing
\* buffer, calls transport.close() once and passes nothing to
\* transport.send; after it nothing is read from stdin or passed to
\* transport.send; a step that logs the failure of the close request leaves
\* the process running with no error thrown.
C18_StdinCloseTearsDown ==
    [][ /\ (~stdinClosed /\ stdinClosed')
           => /\ readBuffer' = Undefined
              /\ closeCalls' = closeCalls + 1
              /\ outcomes' = outcomes
        /\ stdinClosed
           => /\ stdinClosed' /\ closeCalls' = closeCalls
              /\ outcomes' = outcomes /\ stdinAll' = stdinAll
              /\ readBuffer' = readBuffer
        /\ (LogCloseFailed \in log' /\ LogCloseFailed \notin log)
           => pc' = pc /\ exitCode' = exitCode /\ rejected' = rejected
       ]_vars

\* C18 witness: stdin closed after a record and the first byte of another;
\* the record was forwarded, the byte was dropped, the close request failed
\* and the process is still running
C18_Witness ==
    /\ stdinClosed /\ closeCalls = 1
    /\ stdinAll = <<97, LF, 98>>
    /\ Len(Sent) = 1 /\ readBuffer = Undefined
    /\ LogCloseFailed \in log
    /\ pc = "steady"

\* C19: every accepted connection has exactly one transport and every
\* transport exactly one handler, constructed for it; no transport reads two
\* sockets and no handler serves two transports; with several connections
\* open, a handler has received messages of its own connection only and its
\* replies were written to the socket the request came from.
C19_SessionsIsolated ==
    /\ Len(transports) = Len(conns)
    /\ Len(handlers) = Len(conns)
    /\ \A c \in 1..Len(conns) :
          Cardinality({t \in 1..Len(transports) : transports[t].socket = c}) = 1
    /\ \A t \in 1..Len(transports) :
          /\ Cardinality({h \in 1..Len(handlers) : handlers[h].transport = t}) = 1
          /\ transports[t].onmessage \in 1..Len(handlers)
          /\ handlers[transports[t].onmessage].transport = t
    /\ \A t, u \in 1..Len(transports) :
          transports[t].onmessage = transports[u].onmessage => t = u
    /\ \A x, y \in handled :
          (x.handler = y.handler) <=> (x.conn = y.conn)
    /\ \A w \in written :
          /\ w.socket = w.conn
          /\ transports[handlers[w.handler].transport].socket = w.conn

\* C19 witness: two connections open at once, a message arrived on each and
\* each was answered
C19_Witness ==
    /\ Len(conns) = 2 /\ conns[1].open /\ conns[2].open
    /\ {x.conn : x \in handled} = {1, 2}
    /\ {w.socket : w \in written} = {1, 2}
    /\ pending = {}

\* C20: no open connection has been without traffic for more than
\* SOCKET_TIMEOUT_MS; the idle timer destroys a connection only when
\* SOCKET_TIMEOUT_MS have passed since its last traffic (or since it was
\* accepted); every read or write on a connection starts the window again
\* and leaves the connection open.
C20_IdleTimerDestroysSilentConnections ==
    /\ [](\A c \in 1..Len(conns) :
             conns[c].open => conns[c].idle <= SOCKET_TIMEOUT_MS)
    /\ [][\A c \in 1..Len(conns) :
             /\ (conns[c].open /\ ~conns'[c].open /\ conns'[c].closedBy = "idle")
                => conns[c].idle >= SOCKET_TIMEOUT_MS
             /\ conns'[c].events > conns[c].events
                => conns'[c].idle = 0 /\ conns'[c].open
             /\ conns'[c].idle \in {0, conns[c].idle, conns[c].idle + TickMs}
         ]_vars

\* C20 witness: a connection saw traffic 900 ms after the traffic before it
\* and stayed open; then nothing happened for 1000 ms and the idle timer
\* destroyed it
C20_Witness ==
    \E c \in 1..Len(conns) :
       /\ ~conns[c].open /\ conns[c].closedBy = "idle"
       /\ conns[c].events = 2 /\ conns[c].lastGap = 900
       /\ conns[c].idle = SOCKET_TIMEOUT_MS

\* the steps of startMcpDaemon in the order the claim gives them (fs.stat
\* belongs to the removal of a stale socket)
StartupOrder == <<"mkdir", "stat", "unlink", "listen", "chmod", "ready">>
StartupRank(step) ==
    IF \E k \in 1..Len(StartupOrder) : StartupOrder[k] = step
    THEN CHOOSE k \in 1..Len(StartupOrder) : StartupOrder[k] = step
    ELSE 0
Signals == {"SIGTERM", "SIGINT"}
Signalled == \E i \in 1..Len(dsteps) : dsteps[i] \in Signals

C22_StartupOrder ==
    /\ [](\A i \in 1..Len(dsteps), j \in 1..Len(dsteps) :
            (i < j /\ StartupRank(dsteps[i]) > 0 /\ StartupRank(dsteps[j]) > 0)
               => StartupRank(dsteps[i]) < StartupRank(dsteps[j]))
    /\ [](\A i \in 1..Len(dsteps) :
            /\ (dsteps[i] = "listen" /\ i < Len(dsteps))
                  => dsteps[i + 1] = "chmod"
            /\ dsteps[i] = "ready"
                  => i > 2 /\ dsteps[i - 1] = "chmod" /\ dsteps[i - 2] = "listen")
    /\ [](dpc = "ready" <=> \E i \in 1..Len(dsteps) : dsteps[i] = "ready")
    /\ [][(dpc # "ready" /\ dpc' = "ready") =>
            /\ dpc = "d_chmod"
            /\ fs.present /\ fs'.present
            /\ isSocket(fs')
            /\ fs'.mode % 4096 = 384]_vars

\* a stale socket was removed, the listener was bound under umask 022 and
\* the daemon became ready
C22_Witness ==
    /\ dpc = "ready"
    /\ dsteps = StartupOrder
    /\ fs = [present |-> TRUE, mode |-> S_IFSOCK + 384, uid |-> 1000]
    /\ dstat.mode = S_IFSOCK + 420

\* C23: once the daemon has ended after a termination request received in
\* the ready state, the listener is closed and no socket file is left at the
\* path.
C23_TerminationUnlinksSocket ==
    (Signalled /\ dexited # {}) => (~listening /\ ~fs.present)

\* C24: the daemon does not end after a termination request before it has
\* unlinked the socket file: the unlink comes after the signal and before
\* the exit.
C24_ExitOnlyAfterUnlink ==
    (Signalled /\ dexited # {}) =>
        \E i \in 1..Len(dsteps), j \in 1..Len(dsteps) :
            i < j /\ dsteps[i] \in Signals /\ dsteps[j] = "unlink"

\* what readMessage makes of a newline-terminated line: a message when the
\* line is the JSON text of a protocol message, a parse failure otherwise
Corresponds(outcome, line) ==
    IF RecordValue(line) # NoValue
    THEN outcome.kind = "message" /\ outcome.value = RecordValue(line)
    ELSE outcome.kind = "throw"

HoldsNewline(bytes) == \E i \in 1..Len(bytes) : bytes[i] = LF

\* C25: over any sequence of append and readMessage calls the k-th outcome
\* (message or parse failure) is the one of the k-th newline-terminated line
\* of all the bytes appended; readMessage returns null exactly when the
\* buffer holds no newline, which is exactly when every such line has been
\* returned.
C25_RecordsInArrivalOrder ==
    LET lines == CompleteLines(stdinAll) IN
    /\ Len(outcomes) <= Len(lines)
    /\ \A k \in 1..Len(outcomes) : Corresponds(outcomes[k], lines[k])
    /\ readMessage(readBuffer).kind = "null" <=> ~HoldsNewline(readBuffer.bytes)
    /\ readMessage(readBuffer).kind = "null" <=> Len(outcomes) = Len(lines)

\* one append made two records available, and both were returned in order;
\* a later append made none available
C25_Witness ==
    /\ stdinAll = <<97, LF, 97, LF, 97>>
    /\ cuts = {4}
    /\ Len(outcomes) = 2
    /\ outcomes[1].kind = "message" /\ outcomes[1].value.id = 1
    /\ outcomes[2].kind = "message" /\ outcomes[2].value.id = 1
    /\ readMessage(readBuffer).kind = "null"

\* a readMessage call has just thrown
ReadThrew ==
    /\ Len(outcomes') = Len(outcomes) + 1
    /\ outcomes'[Len(outcomes')].kind = "throw"

\* C26: a readMessage call that throws consumes the bytes up to and
\* including the first newline and nothing else: what follows that newline
\* is the buffer afterwards, byte for byte, and draining it gives what the
\* following bytes alone would give.
C26_ParseFailureConsumesOneLine ==
    [][ReadThrew =>
          LET index == IndexOf(readBuffer.bytes, LF)
              after == SubSeq(readBuffer.bytes, index + 1,
                              Len(readBuffer.bytes))
          IN  /\ index > 0
              /\ readBuffer'.bytes = after
              /\ Drain(readBuffer', <<>>) = SingleChunkOutcomes(after)]_vars

\* an empty line and a request arrived in one chunk: the empty line failed
\* to parse and the request was returned by the next call
C26_Witness ==
    /\ stdinAll = <<LF, 97, LF>>
    /\ cuts = {}
    /\ Len(outcomes) = 2
    /\ outcomes[1].kind = "throw"
    /\ outcomes[2].kind = "message" /\ outcomes[2].value.id = 1

\* the bytes after the last '\n' of a byte sequence
RECURSIVE AfterLastNewline(_)
AfterLastNewline(bytes) ==
    IF bytes = <<>> \/ bytes[Len(bytes)] = LF THEN <<>>
    ELSE Append(AfterLastNewline(SubSeq(bytes, 1, Len(bytes) - 1)),
                bytes[Len(bytes)])

IsSuffix(s, t) ==
    Len(s) <= Len(t) /\ SubSeq(t, Len(t) - Len(s) + 1, Len(t)) = s

\* C27: the record readMessage takes is the decoded bytes before the first
\* '\n' of the buffer without one '\r' at their end, if there is one (a
\* second '\r' stays); the buffer is always an end of the bytes appended
\* that holds everything after their last '\n'; an append adds the chunk
\* behind what was buffered; and a call that returns null leaves the buffer
\* as it was.
C27_RecordAndRemainder ==
    /\ [](\A k \in 1..Len(outcomes) :
            LET text == Utf8Decode(CompleteLines(stdinAll)[k]) IN
            outcomes[k].line =
               IF text # <<>> /\ text[Len(text)] = CR
               THEN SubSeq(text, 1, Len(text) - 1)
               ELSE text)
    /\ [](/\ IsSuffix(readBuffer.bytes, stdinAll)
          /\ IsSuffix(AfterLastNewline(stdinAll), readBuffer.bytes))
    /\ [](readMessage(readBuffer).kind = "null"
             => readMessage(readBuffer).buffer = readBuffer)
    /\ [][stdinAll' # stdinAll =>
            \E chunk \in SeqsUpTo(FramerBytes, MaxFramerBytes) :
               /\ stdinAll' = stdinAll \o chunk
               /\ readBuffer'.bytes = readBuffer.bytes \o chunk]_vars

\* a record ended in two '\r': one of them was kept; the byte that arrived
\* after its '\n' is still buffered
C27_Witness ==
    /\ stdinAll = <<97, CR, CR, LF, 195>>
    /\ Len(outcomes) = 1
    /\ outcomes[1].line = <<97, CR>>
    /\ outcomes[1].kind = "message"
    /\ readBuffer.bytes = <<195>>

\* name is listed in the value of MCP_DISABLED_TOOLS: between two commas (or
\* an end of the value) there is the name and around it nothing but blanks
ListedIn(env, name) ==
    \E i \in 1..Len(env) :
       /\ env[i] = name
       /\ \E a \in 0..(i - 1), b \in (i + 1)..(Len(env) + 1) :
             /\ a = 0 \/ env[a] = ","
             /\ b = Len(env) + 1 \/ env[b] = ","
             /\ \A j \in (a + 1)..(b - 1) : j # i => env[j] = " "

InCatalog(name) == \E i \in 1..Len(Catalog) : Catalog[i] = name
Advertised(name) == \E i \in 1..Len(listed.tools) : listed.tools[i] = name

\* C28: a tool list that was returned holds no name listed in
\* MCP_DISABLED_TOOLS and holds every catalog tool that is not listed; a call
\* naming a listed tool ended in a MethodNotFound error without a parsing or
\* a dispatching step.
C28_DisabledToolsHidden ==
    /\ listed.replied =>
          \A k \in 1..Len(Catalog) :
             Advertised(Catalog[k]) <=> ~ListedIn(disabledEnv, Catalog[k])
    /\ listed.replied =>
          \A i \in 1..Len(listed.tools) : ~ListedIn(disabledEnv, listed.tools[i])
    /\ (lastCall # NoCall /\ ListedIn(disabledEnv, lastCall.name)) =>
          /\ lastCall.steps = <<>>
          /\ lastCall.response.kind = "error"
          /\ lastCall.response.class = "McpError"
          /\ lastCall.response.code = "MethodNotFound"

\* MCP_DISABLED_TOOLS is " server_current,": the list was returned without
\* server_current and with process_get_execution, and a call of
\* server_current was rejected
C28_Witness ==
    /\ disabledEnv = <<" ", "server_current", ",">>
    /\ listed.replied
    /\ ~Advertised("server_current")
    /\ Advertised("process_get_execution")
    /\ lastCall.name = "server_current"
    /\ lastCall.response.code = "MethodNotFound"

C30_NoViolationWhileDaemonStarts ==
    /\ validatorError \notin SecurityErrors
    /\ pc = "v_passed" => passedOn.mode = S_IFSOCK + 384

\* C32: once startMcpDaemon has finished, by returning or by throwing, the
\* daemon holds a bound listener only if that startup reached 'ready', that
\* is only if its chmod to 0600 succeeded; after a startup that failed no
\* listener is left accepting connections.
C32_ListenerOnlyAfterChmod ==
    (dpc \in {"ready", "failed"} /\ listening /\ dexited = {}) =>
        /\ dpc = "ready"
        /\ \E i \in 1..Len(dsteps) : dsteps[i] = "ready"

\* C33: the socket file of another daemon that is listening on the path is
\* never taken from it: no step of this daemon, neither in its startup nor
\* in its termination, removes or replaces that file.
C33_LiveListenerKeepsItsSocket ==
    [][rivalFile => (rivalFile' /\ fs' = fs)]_vars

ParsedTools == {"shell_execute"} \cup ServerTools \cup NonServerTools
Dispatches(steps) == Cardinality({i \in 1..Len(steps) : steps[i] = "dispatch"})

\* C35: a call of shell_execute, of a server_* tool or of a tool of
\* parseNonServerParams reached dispatchToolCall only after its arguments
\* were parsed and accepted; when the schema refused them the call ended
\* in the parse error with no dispatch.  No call dispatched twice.  What a
\* dispatched catalog tool raised came out as InvalidRequest when it was
\* an MCPShellError and as it was otherwise, and a result came out as a
\* result.
C35_ValidateThenDispatchOnce ==
    lastCall # NoCall =>
        /\ Dispatches(lastCall.steps) <= 1
        /\ lastCall.name \in ParsedTools =>
              /\ Dispatches(lastCall.steps) = 1 =>
                    lastCall.argsValid /\ lastCall.steps = <<"parse", "dispatch">>
              /\ (~lastCall.argsValid /\ ~ListedIn(disabledEnv, lastCall.name)) =>
                    /\ lastCall.steps = <<"parse">>
                    /\ lastCall.response = Thrown("ZodError", "")
        /\ (InCatalog(lastCall.name) /\ Dispatches(lastCall.steps) = 1) =>
              /\ lastCall.outcome = "MCPShellError" =>
                    lastCall.response = McpError("InvalidRequest", "tool failed", "")
              /\ lastCall.outcome = "Error" =>
                    lastCall.response = Thrown("Error", "tool failed")
              /\ lastCall.outcome = "result" => lastCall.response = Success

\* process_get_execution was called with arguments its schema refuses: the
\* call ended in the ZodError and nothing was dispatched
C35_Witness ==
    /\ lastCall.name = "process_get_execution"
    /\ ~lastCall.argsValid
    /\ lastCall.steps = <<"parse">>
    /\ lastCall.response.class = "ZodError"

\* the proxy has not yet added its stdin listeners
BeforeStdin == TimedPcs \cup {"v_passed", "rdp_catch", "c_returned"}

\* C34: while transport.start has not succeeded and the stdin listeners
\* are not added, nothing is read from stdin and nothing is given to
\* transport.send; what the client wrote in that time is kept in the order
\* it was written and is delivered from the front; when stdin has closed,
\* every well-formed record of it has been passed to transport.send, in
\* order; and every message the connected transport delivered was written
\* to stdout.
C34_EarlyInputKeptAndForwarded ==
    /\ [](pc \in BeforeStdin =>
            stdinAll = <<>> /\ outcomes = <<>> /\ readBuffer = Undefined)
    /\ [](outcomes # <<>> => connected)
    /\ [][/\ IsPrefix(stdinAll, stdinAll')
          /\ IsPrefix(stdinAll \o stdinPipe, stdinAll' \o stdinPipe')]_vars
    /\ [](stdinClosed => Sent = WellFormedMessages(stdinAll))
    /\ [](Len(stdout) = Len(delivered) /\ (delivered # <<>> => connected))

\* the listener's idle timer destroyed the proxy's connection
IdleDestroyed ==
    conns # <<>> /\ ~conns[1].open /\ conns[1].closedBy = "idle"

\* C31: a connection of a proxy is destroyed by the idle timer only after
\* SOCKET_TIMEOUT_MS without traffic; while the connection is open the
\* listener's clock or its idle timer can always go on; once the timer has
\* destroyed the connection the proxy's onclose handler can run, and when it
\* runs the proxy exits with code 0, whether or not stdin has closed; a
\* proxy whose stdin is open and that has called transport.close() nowhere
\* exits with code 0 only in this way.
C31_IdleTimerEndsSilentSession ==
    /\ [](IdleDestroyed => conns[1].idle = SOCKET_TIMEOUT_MS)
    /\ []((conns # <<>> /\ conns[1].open /\ dexited = {})
            => ENABLED (DaemonTick \/ DaemonIdleTimeout(1)))
    /\ []((IdleDestroyed /\ pc = "steady")
            => ENABLED (TransportClosed /\ TransportClose))
    /\ []((IdleDestroyed /\ pc = "exited") => exitCode = {0})
    /\ [][(LogTransportClosed \in log' /\ LogTransportClosed \notin log)
            => pc = "steady" /\ TransportClosed
               /\ pc' = "exited" /\ exitCode' = {0}]_vars
    /\ [][(exitCode = {} /\ exitCode' = {0} /\ ~stdinClosed)
            => IdleDestroyed /\ closeCalls = 0]_vars

\* C31 witness: the client wrote nothing and never closed stdin, the daemon
\* sent nothing; the listener destroyed the connection after 1000 ms of
\* silence and the proxy exited with code 0
C31_Witness ==
    /\ exitCode = {0} /\ pc = "exited"
    /\ ~stdinClosed /\ stdinAll = <<>> /\ stdinPipe = <<>>
    /\ delivered = <<>> /\ closeCalls = 0
    /\ IdleDestroyed /\ conns[1].events = 0
    /\ conns[1].idle = SOCKET_TIMEOUT_MS
    /\ LogTransportClosed \in log

\* the positions of the proxy's startup, in the order they are passed
PhaseRank ==
    CASE pc \in {"v_stat", "v_sleep"} -> 1
      [] pc \in {"v_passed", "rdp_catch"} -> 2
      [] pc \in {"c_start", "c_sleep"} -> 3
      [] pc = "c_returned" -> 4
      [] pc = "steady" -> 5
      [] pc = "exited" -> 6
      [] OTHER -> 0

\* what every step of a startup loop increases
LoopRank == elapsed \div TickMs + polls + sleeps + attempts

PollsInWindow == SOCKET_READY_TIMEOUT_MS \div SOCKET_READY_INTERVAL_MS
AttemptsInWindow == TRANSPORT_READY_TIMEOUT_MS \div TRANSPORT_READY_INTERVAL_MS

\* C36: the startup loops are bounded and cannot stall: at most
\* 3000 / 200 polls, each before the 3000 ms deadline and 200 ms or more
\* after the poll before it, and at most 2000 / 200 connect attempts, spaced
\* the same way before the 2000 ms deadline; in a loop the clock or a step
\* of the loop can always go on, every step taken in a loop increases the
\* time passed or a counter, and the proxy never returns to an earlier
\* phase; the validator is left only with a pass, a security failure or the
\* timeout, the connect loop only with a successful attempt or a failure;
\* a connect loop that runs out of time after refusals exits with code 1
\* and the refusal as its error, and startup succeeds only by an attempt
\* that connected.
C36_StartupTerminates ==
    /\ [](polls <= PollsInWindow /\ attempts <= AttemptsInWindow)
    /\ [](pc = "v_stat" =>
             elapsed >= (polls - 1) * SOCKET_READY_INTERVAL_MS)
    /\ [](pc = "c_start" =>
             elapsed >= (attempts - 1) * TRANSPORT_READY_INTERVAL_MS)
    /\ [](pc \in TimedPcs =>
             /\ ENABLED (Tick \/ StatReturns \/ SocketTimerFires
                           \/ StartResolves \/ ConnectTimerFires)
             /\ elapsed <= Deadline + SOCKET_READY_INTERVAL_MS
                              + 2 * MaxLateTicks * TickMs)
    /\ [](pc \in {"c_returned", "steady"} => connected)
    /\ [][/\ polls' > polls => elapsed' < SOCKET_READY_TIMEOUT_MS
          /\ attempts' > attempts => elapsed' < TRANSPORT_READY_TIMEOUT_MS
          /\ PhaseRank > 0 => PhaseRank' >= PhaseRank
          /\ (pc \in TimedPcs /\ PhaseRank' = PhaseRank
                /\ <<pc, clockVars, polls, sleeps, attempts>>'
                     # <<pc, clockVars, polls, sleeps, attempts>>)
             => LoopRank' > LoopRank
          /\ (PhaseRank = 1 /\ PhaseRank' # 1)
             => \/ pc' = "v_passed" /\ ValidEntry(passedOn')
                \/ /\ pc' = "rdp_catch"
                   /\ validatorError' \in SecurityErrors \cup {ErrSocketTimeout}
          /\ (PhaseRank = 3 /\ PhaseRank' # 3)
             => \/ pc = "c_start" /\ pc' = "c_returned" /\ connected'
                \/ /\ pc' = "exited" /\ exitCode' = {1} /\ ~connected'
                   /\ rejected' # NoError
          /\ (pc = "c_sleep" /\ pc' # "c_sleep"
                /\ elapsed >= TRANSPORT_READY_TIMEOUT_MS)
             => /\ pc' = "exited" /\ exitCode' = {1} /\ ~connected'
                /\ lastError = ErrConnect("ECONNREFUSED")
                /\ rejected' = lastError
         ]_vars

\* C36 witness: every attempt was refused: attempts at 0, 200, ..., 1800 ms,
\* and at 2000 ms the loop gave up with the refusal, exit code 1
C36_Witness ==
    /\ pc = "exited" /\ exitCode = {1}
    /\ attempts = AttemptsInWindow /\ sleeps = AttemptsInWindow
    /\ elapsed = TRANSPORT_READY_TIMEOUT_MS
    /\ rejected = ErrConnect("ECONNREFUSED")
    /\ ~connected
====
